---- MODULE Spec2Model ----
(***************************************************************************)
(* The database-backed keyset store of django-tink-fields                  *)
(* (tink_fields/models.py): the Keyset and Key tables, the Keyset model    *)
(* instances that processes hold in memory, the primitive index            *)
(* (_DatabasePrimitiveKeyset) each instance builds lazily, and the Tink    *)
(* AEAD wrapper's encrypt/decrypt routed through that index.               *)
(***************************************************************************)
EXTENDS Integers, Sequences, FiniteSets, TLC

\* ------------------------------------------------------------------ bounds

\* Key ids handed out by the Key table's auto-increment column: 1..MaxKeys.
MaxKeys == 3

\* Keys generated in a keyset after its creation, where ciphertexts are
\* followed across rotations.
MaxRotations == 1

\* ------------------------------------------------------- program constants

\* NULL in Keyset.primary_key (null=True); also "no keyset row" for an
\* instance slot that holds no model object.
NoKey == 0

\* crypto_format: the first byte of a TINK prefix and of a LEGACY/CRUNCHY one.
TinkStartByte == 1
LegacyStartByte == 0

\* The first byte of an AEAD body (an IV byte); it stands for random bytes,
\* which are not the prefix of any key.
IvByte == 2

\* crypto_format.NON_RAW_PREFIX_SIZE, in elements of the modelled byte string
\* (one start byte and the key id, which stands for its 4 big-endian bytes).
NonRawPrefixSize == 2

\* ------------------------------------------------------------ input domains

\* Keyset names (Keyset.name, unique).
Names == {"aead", "daead"}

\* In-memory Keyset model objects, each held by one process.
Instances == {"p1", "p2"}

\* tink_pb2.KeyStatusType
Statuses == {"ENABLED", "DISABLED", "DESTROYED"}

\* Key templates a caller can pass: type_url and output prefix type.
Templates ==
    { [type_url |-> "AesGcmKey", output_prefix_type |-> "TINK"],
      [type_url |-> "AesGcmKey", output_prefix_type |-> "RAW"] }

\* The template the storage operations are followed with (AES256_GCM).
StoreTemplates == {[type_url |-> "AesGcmKey", output_prefix_type |-> "TINK"]}

\* The plaintext the application encrypts (TEST_DATA of the tests), and the
\* plaintexts a caller can pass.
TestData == 7
Plaintexts == {TestData, 8}

\* The associated data the application binds to what it encrypts (ASSOC_DATA
\* of the tests), and the associated data a caller can present at decryption.
AssocData == 5
Aads == {AssocData, 6}

\* The keyset names of TINK_FIELDS_CONFIG, and the names a field can ask for.
ConfigNames == {"default", "alternate"}
FieldKeysets == ConfigNames \cup {"nonexistent"}

\* The keyset files that exist, and the paths a configuration can give: the
\* empty path (None and "" are alike to `not self.path`), a path where there
\* is no file, and the path of a keyset file.
Files == {"test_plaintext_keyset.json"}
Paths == {"", "/nonexistent/path/that/does/not/exist.json"} \cup Files

\* The keyword arguments of KeysetConfig that one entry of TINK_FIELDS_CONFIG
\* holds; master_key_aead is TRUE when a master key is given.
ConfigEntries == [path : Paths, cleartext : BOOLEAN, master_key_aead : BOOLEAN]

\* TINK_FIELDS_CONFIG of the test settings: cleartext keysets in a file.
TestSettings ==
    [name \in ConfigNames |->
        [path |-> "test_plaintext_keyset.json", cleartext |-> TRUE,
         master_key_aead |-> FALSE]]

\* The threads of one process that call into the index of one Keyset object,
\* and the state of a thread that is in no call.
Callers == {"t1", "t2"}
Returned == [op |-> "", keys |-> <<>>, checked |-> FALSE]

KeyIds == 1..MaxKeys

VARIABLES
    keyset_tbl,   \* Keyset rows: id -> [id, name, primary_key_id]
    key_tbl,      \* Key rows: id -> [id, keyset_id, type_url, key_data, status,
                  \*                  output_prefix_type, output_prefix]
    inst,         \* the Keyset object of each process
    pc,           \* where each process is inside set_primary_key
    stored,       \* the ciphertext in the row the application keeps
    raised,       \* the exception the most recent call raised, "" when it returned
    queries,      \* the storage queries the most recent index lookup issued
    settings,     \* settings.TINK_FIELDS_CONFIG: <<>> when missing, else <<dict>>
    manager,      \* the KeysetManager of a field: <<>> before it is constructed
    message,      \* the message of the exception the most recent call raised
    exported,     \* what the most recent export command wrote: <<>> or <<export>>
    callers,      \* the threads of one process inside a call on the shared index
    txn,          \* the Key row each process wrote in a transaction still open
    handle_cache, \* KeysetManager._handle_cache: cache key -> handle
    file_reads    \* the reads of keyset files so far, one cache key each

\* The configuration side of a field, and the output of the commands.
\* What lives in one process beside its Keyset object.
processvars == <<callers, txn, handle_cache, file_reads>>

fieldvars == <<settings, manager, message, exported, processvars>>

vars == <<keyset_tbl, key_tbl, inst, pc, stored, raised, queries, fieldvars>>

\* ------------------------------------------------------------------ helpers

Max(S) == CHOOSE x \in S : \A y \in S : y <= x

\* The id the table's auto-increment column gives the next row.
NextId(tbl) == IF DOMAIN tbl = {} THEN 1 ELSE Max(DOMAIN tbl) + 1

\* Keyset.objects.get(name=name): the ids of the rows with that name.
KeysetByName(name) == {k \in DOMAIN keyset_tbl : keyset_tbl[k].name = name}

\* keyset.key_set: the Key rows whose keyset foreign key is ksid.
KeySet(ksid) == {k \in DOMAIN key_tbl : key_tbl[k].keyset_id = ksid}

\* crypto_format.output_prefix(key)
OutputPrefix(key_id, output_prefix_type) ==
    CASE output_prefix_type = "TINK" -> <<TinkStartByte, key_id>>
      [] output_prefix_type \in {"LEGACY", "CRUNCHY"} -> <<LegacyStartByte, key_id>>
      [] output_prefix_type = "RAW" -> <<>>

\* Registry.new_key_data(template): fresh key material; the n-th key ever
\* generated gets material n.
NewKeyData(tmpl, n) == [type_url |-> tmpl.type_url, value |-> n]

\* A process slot that holds no Keyset object.
NoInstance == [pk |-> NoKey, primary_key_id |-> NoKey, pset |-> <<>>]

\* ------------------------------------------------------- the primitive index

\* Key.primitive: the primitive the key manager builds from the key data.
KeyPrimitive(key) == key.key_data

\* Key.entry: the index entry projected from a Key object.
KeyEntry(key) ==
    [primitive |-> KeyPrimitive(key), identifier |-> key.output_prefix,
     status |-> key.status, output_prefix_type |-> key.output_prefix_type,
     key_id |-> key.id]

\* PrimitiveSet.__init__: an index with no entries.
EmptyIndex == [idf \in {} |-> <<>>]

\* _DatabasePrimitiveKeyset._all_cached_key_ids
AllCachedKeyIds(ix) ==
    UNION {{ix[idf][n].key_id : n \in 1..Len(ix[idf])} : idf \in DOMAIN ix}

EntryByIdNone(ix, identifier, key_id) == <<>>

EntryByIdFirst(ix, identifier, key_id) ==
    IF identifier \in DOMAIN ix /\ Len(ix[identifier]) >= 1
    THEN <<ix[identifier][1]>> ELSE <<>>

\* _DatabasePrimitiveKeyset._entry_by_id: <<entry>> when found, <<>> for None.
EntryById(ix, identifier, key_id) ==
    IF Len(identifier) > 0 /\ identifier \in DOMAIN ix /\ Len(ix[identifier]) = 1
    THEN <<ix[identifier][1]>>
    ELSE LET primitives == IF identifier \in DOMAIN ix THEN ix[identifier] ELSE <<>>
             hits == {n \in 1..Len(primitives) : primitives[n].key_id = key_id}
         IN IF hits = {} THEN <<>>
            ELSE <<primitives[CHOOSE n \in hits : \A m \in hits : n <= m]>>

AddKeyToCacheReplace(ix, key) ==
    IF EntryById(ix, key.output_prefix, key.id) # <<>>
    THEN ix
    ELSE [idf \in DOMAIN ix \cup {key.output_prefix} |->
             IF idf = key.output_prefix THEN <<KeyEntry(key)>> ELSE ix[idf]]

\* _DatabasePrimitiveKeyset._add_key_to_cache
AddKeyToCache(ix, key) ==
    IF EntryById(ix, key.output_prefix, key.id) # <<>>
    THEN ix
    ELSE LET entries == IF key.output_prefix \in DOMAIN ix
                        THEN ix[key.output_prefix] ELSE <<>>
         IN [idf \in DOMAIN ix \cup {key.output_prefix} |->
                IF idf = key.output_prefix THEN Append(entries, KeyEntry(key))
                ELSE ix[idf]]

\* The rows of a query, in primary-key order.
RECURSIVE InIdOrder(_)
InIdOrder(ids) ==
    IF ids = {} THEN <<>>
    ELSE LET lo == CHOOSE x \in ids : \A y \in ids : x <= y
         IN <<key_tbl[lo]>> \o InIdOrder(ids \ {lo})

\* for key in <query>: self._add_key_to_cache(key)
RECURSIVE AddKeysToCache(_, _)
AddKeysToCache(ix, keys) ==
    IF keys = <<>> THEN ix
    ELSE AddKeysToCache(AddKeyToCache(ix, Head(keys)), Tail(keys))

\* PrimitiveSet.primitive_from_identifier: the entries under an identifier.
SuperPrimitiveFromIdentifier(ix, identifier) ==
    IF identifier \in DOMAIN ix THEN ix[identifier] ELSE <<>>

UncachedWithPrefixFirst(ix, ksid, identifier) ==
    LET rows == {k \in KeySet(ksid) :
                    key_tbl[k].output_prefix = identifier /\ k \notin AllCachedKeyIds(ix)}
    IN {k \in rows : \A other \in rows : k <= other}

\* self._keyset.key_set.filter(output_prefix=identifier)
\*     .exclude(id__in=list(self._all_cached_key_ids()))
UncachedWithPrefix(ix, ksid, identifier) ==
    {k \in KeySet(ksid) :
        key_tbl[k].output_prefix = identifier /\ k \notin AllCachedKeyIds(ix)}

PrimitiveFromIdentifierCacheOnly(ix, ksid, identifier) ==
    [ix |-> ix, entries |-> SuperPrimitiveFromIdentifier(ix, identifier),
     queries |-> 0]

PrimitiveFromIdentifierFastRaw(ix, ksid, identifier) ==
    IF identifier \in DOMAIN ix
    THEN [ix |-> ix, entries |-> SuperPrimitiveFromIdentifier(ix, identifier),
          queries |-> 0]
    ELSE LET filled == AddKeysToCache(ix,
                          InIdOrder(UncachedWithPrefix(ix, ksid, identifier)))
         IN [ix |-> filled,
             entries |-> SuperPrimitiveFromIdentifier(filled, identifier),
             queries |-> 1]

PrimitiveFromIdentifierNoFastPath(ix, ksid, identifier) ==
    LET filled == AddKeysToCache(ix,
                      InIdOrder(UncachedWithPrefix(ix, ksid, identifier)))
    IN [ix |-> filled,
        entries |-> SuperPrimitiveFromIdentifier(filled, identifier),
        queries |-> 1]

\* _DatabasePrimitiveKeyset.primitive_from_identifier: the index after the
\* call, the entries it returns, and the storage queries it issued: none on
\* the fast path, which returns before the query, else the one query.
PrimitiveFromIdentifier(ix, ksid, identifier) ==
    IF Len(identifier) > 0 /\ identifier \in DOMAIN ix
    THEN [ix |-> ix, entries |-> SuperPrimitiveFromIdentifier(ix, identifier),
          queries |-> 0]
    ELSE LET filled == AddKeysToCache(ix,
                          InIdOrder(UncachedWithPrefix(ix, ksid, identifier)))
         IN [ix |-> filled,
             entries |-> SuperPrimitiveFromIdentifier(filled, identifier),
             queries |-> 1]

\* self._keyset.primary_key, the foreign-key descriptor: the Key row that the
\* object's primary_key_id names (the descriptor drops its cached object
\* whenever primary_key_id is assigned another id or the object is refreshed).
\* <<key>> when it resolves, <<>> when the id is None or names no row.
PrimaryKeyOf(o) ==
    IF o.primary_key_id \in DOMAIN key_tbl
    THEN <<key_tbl[o.primary_key_id]>> ELSE <<>>

PrimaryByIdentifier(ix, key) ==
    IF key.output_prefix \in DOMAIN ix
    THEN [ix |-> ix, entry |-> ix[key.output_prefix][1]]
    ELSE [ix |-> AddKeyToCache(ix, key), entry |-> KeyEntry(key)]

PrimaryCached(ix, key) ==
    IF DOMAIN ix # {}
    THEN [ix |-> ix, entry |-> ix[CHOOSE idf \in DOMAIN ix : TRUE][1]]
    ELSE [ix |-> AddKeyToCache(ix, key), entry |-> KeyEntry(key)]

\* _DatabasePrimitiveKeyset.primary, once the primary key resolved to `key`:
\* the index after the call and the entry it returns.
Primary(ix, key) ==
    LET entry == EntryById(ix, key.output_prefix, key.id)
    IN IF entry # <<>> THEN [ix |-> ix, entry |-> entry[1]]
       ELSE [ix |-> AddKeyToCache(ix, key), entry |-> KeyEntry(key)]

\* ------------------------------------------------------------ the primitives

\* The authentication tag of an AEAD body: it binds the key material, the
\* plaintext and the associated data, so that changing any one of them
\* changes the tag.
Tag(value, plaintext, aad) == value + plaintext + aad

\* Aead.encrypt of one key: an IV byte, the body under the key material, and
\* the tag over key material, plaintext and associated data.
AeadEncrypt(primitive, plaintext, aad) ==
    <<IvByte, primitive.value, plaintext, Tag(primitive.value, plaintext, aad)>>

AeadDecryptNoAad(primitive, ciphertext, aad) ==
    IF Len(ciphertext) = 4 /\ ciphertext[1] = IvByte
       /\ ciphertext[2] = primitive.value
    THEN <<ciphertext[3]>> ELSE <<>>

\* Aead.decrypt of one key: <<plaintext>> when the body is under this key and
\* the tag verifies with the associated data given, <<>> for a TinkError.
AeadDecrypt(primitive, ciphertext, aad) ==
    IF Len(ciphertext) = 4 /\ ciphertext[1] = IvByte
       /\ ciphertext[2] = primitive.value
       /\ ciphertext[4] = Tag(primitive.value, ciphertext[3], aad)
    THEN <<ciphertext[3]>> ELSE <<>>

\* for entry in entries: try: return entry.primitive.decrypt(...)
RECURSIVE TryEntries(_, _, _)
TryEntries(entries, ciphertext, aad) ==
    IF entries = <<>> THEN <<>>
    ELSE LET got == AeadDecrypt(Head(entries).primitive, ciphertext, aad)
         IN IF got # <<>> THEN got ELSE TryEntries(Tail(entries), ciphertext, aad)

\* The wrapped Aead's encrypt, once primary() returned `entry`.
WrappedEncrypt(entry, plaintext, aad) ==
    entry.identifier \o AeadEncrypt(entry.primitive, plaintext, aad)

\* The wrapped Aead's decrypt over the index of keyset ksid: the index after
\* the call and <<plaintext>>, or <<>> when decryption failed.
WrappedDecrypt(ix, ksid, ciphertext, aad) ==
    LET byPrefix ==
            IF Len(ciphertext) > NonRawPrefixSize
            THEN PrimitiveFromIdentifier(ix, ksid,
                     SubSeq(ciphertext, 1, NonRawPrefixSize))
            ELSE [ix |-> ix, entries |-> <<>>]
        first == TryEntries(byPrefix.entries,
                     SubSeq(ciphertext, NonRawPrefixSize + 1, Len(ciphertext)), aad)
        raw == PrimitiveFromIdentifier(byPrefix.ix, ksid, <<>>)
    IN IF first # <<>> THEN [ix |-> byPrefix.ix, out |-> first]
       ELSE [ix |-> raw.ix, out |-> TryEntries(raw.entries, ciphertext, aad)]

\* ------------------------------------------------------------------ storage

CreateFromKeydataDisabled(ksid, keydata, output_prefix_type) ==
    LET id == NextId(key_tbl)
    IN [id |-> id, keyset_id |-> ksid, type_url |-> keydata.type_url,
        key_data |-> keydata, status |-> "DISABLED",
        output_prefix_type |-> output_prefix_type,
        output_prefix |-> OutputPrefix(id, output_prefix_type)]

\* Key.create_from_keydata: the row that is committed (insert, read back the
\* id, compute the routing identifier, update).
CreateFromKeydata(ksid, keydata, output_prefix_type) ==
    LET id == NextId(key_tbl)
    IN [id |-> id, keyset_id |-> ksid, type_url |-> keydata.type_url,
        key_data |-> keydata, status |-> "ENABLED",
        output_prefix_type |-> output_prefix_type,
        output_prefix |-> OutputPrefix(id, output_prefix_type)]

\* Keyset.generate_key: the Key it creates and returns.
GeneratedKey(ksid, tmpl) ==
    CreateFromKeydata(ksid, NewKeyData(tmpl, NextId(key_tbl)), tmpl.output_prefix_type)

\* The foreign-key constraint of Keyset.primary_key: NULL or an existing Key.
ForeignKeyOk(key_id) == key_id = NoKey \/ key_id \in DOMAIN key_tbl

\* The UPDATE that save(update_fields=["primary_key"]) issues: the
\* primary_key_id column of the one row whose id is ksid.
UpdatePrimaryKeyLost(ksid, key_id) == keyset_tbl

UpdatePrimaryKey(ksid, key_id) ==
    [keyset_tbl EXCEPT ![ksid].primary_key_id = key_id]

Init ==
    /\ keyset_tbl = [k \in {} |-> <<>>]
    /\ key_tbl = [k \in {} |-> <<>>]
    /\ inst = [i \in Instances |-> NoInstance]
    /\ pc = [i \in Instances |-> "idle"]
    /\ stored = {}
    /\ raised = ""
    /\ queries = 0
    /\ settings = <<TestSettings>>
    /\ manager = <<>>
    /\ message = ""
    /\ exported = <<>>
    /\ callers = [t \in Callers |-> Returned]
    /\ txn = [i \in Instances |-> <<>>]
    /\ handle_cache = [k \in {} |-> 0]
    /\ file_reads = <<>>

CreateNoUniqueName(i, name, tmpl) ==
    /\ pc[i] = "idle"
    /\ NextId(key_tbl) <= MaxKeys
    /\ NextId(keyset_tbl) <= Cardinality(Names)
    /\ LET ksid == NextId(keyset_tbl)
           key == GeneratedKey(ksid, tmpl)
       IN /\ keyset_tbl' = [k \in DOMAIN keyset_tbl \cup {ksid} |->
                IF k = ksid
                THEN [id |-> ksid, name |-> name, primary_key_id |-> NoKey]
                ELSE keyset_tbl[k]]
          /\ key_tbl' = [k \in DOMAIN key_tbl \cup {key.id} |->
                IF k = key.id THEN key ELSE key_tbl[k]]
          /\ inst' = [inst EXCEPT ![i] =
                [pk |-> ksid, primary_key_id |-> key.id, pset |-> <<>>]]
          /\ raised' = ""
    /\ UNCHANGED <<pc, stored>>
    /\ UNCHANGED <<queries, fieldvars>>

\* Keyset.create(name, key_template), its result bound to the process's slot.
Create(i, name, tmpl) ==
    /\ pc[i] = "idle"
    /\ IF KeysetByName(name) # {}
       THEN /\ raised' = "IntegrityError"
            /\ UNCHANGED <<keyset_tbl, key_tbl, inst>>
       ELSE /\ NextId(key_tbl) <= MaxKeys
            /\ LET ksid == NextId(keyset_tbl)
                   key == GeneratedKey(ksid, tmpl)
               IN /\ keyset_tbl' = [k \in DOMAIN keyset_tbl \cup {ksid} |->
                        IF k = ksid
                        THEN [id |-> ksid, name |-> name, primary_key_id |-> NoKey]
                        ELSE keyset_tbl[k]]
                  /\ key_tbl' = [k \in DOMAIN key_tbl \cup {key.id} |->
                        IF k = key.id THEN key ELSE key_tbl[k]]
                  /\ inst' = [inst EXCEPT ![i] =
                        [pk |-> ksid, primary_key_id |-> key.id, pset |-> <<>>]]
                  /\ raised' = ""
    /\ UNCHANGED <<pc, stored>>
    /\ UNCHANGED <<queries, fieldvars>>

\* Keyset.objects.get(name=name): a fresh object read from storage.
Load(i, name) ==
    /\ pc[i] = "idle"
    /\ IF KeysetByName(name) = {}
       THEN /\ raised' = "DoesNotExist"
            /\ UNCHANGED inst
       ELSE LET row == keyset_tbl[CHOOSE k \in KeysetByName(name) : TRUE]
            IN /\ inst' = [inst EXCEPT ![i] =
                     [pk |-> row.id, primary_key_id |-> row.primary_key_id,
                      pset |-> <<>>]]
               /\ raised' = ""
    /\ UNCHANGED <<keyset_tbl, key_tbl, pc, stored>>
    /\ UNCHANGED <<queries, fieldvars>>

\* keyset.refresh_from_db(): the fields are reloaded; the cached index stays.
RefreshFromDb(i) ==
    /\ pc[i] = "idle"
    /\ inst[i].pk \in DOMAIN keyset_tbl
    /\ inst' = [inst EXCEPT ![i].primary_key_id = keyset_tbl[inst[i].pk].primary_key_id]
    /\ raised' = ""
    /\ UNCHANGED <<keyset_tbl, key_tbl, pc, stored>>
    /\ UNCHANGED <<queries, fieldvars>>

\* keyset.save(): every field of the object is written to its row.
Save(i) ==
    /\ pc[i] = "idle"
    /\ inst[i].pk \in DOMAIN keyset_tbl
    /\ IF ForeignKeyOk(inst[i].primary_key_id)
       THEN /\ keyset_tbl' = [keyset_tbl EXCEPT
                                ![inst[i].pk].primary_key_id = inst[i].primary_key_id]
            /\ raised' = ""
       ELSE /\ raised' = "IntegrityError"
            /\ UNCHANGED keyset_tbl
    /\ UNCHANGED <<key_tbl, inst, pc, stored>>
    /\ UNCHANGED <<queries, fieldvars>>

GenerateKeyInPlace(i, tmpl) ==
    /\ pc[i] = "idle"
    /\ inst[i].pk \in DOMAIN keyset_tbl
    /\ NextId(key_tbl) <= MaxKeys
    /\ LET key == GeneratedKey(inst[i].pk, tmpl)
           old == Max(DOMAIN key_tbl)
       IN /\ key_tbl' = [k \in DOMAIN key_tbl \cup {key.id} |->
                IF k = key.id THEN key
                ELSE IF k = old THEN [key_tbl[k] EXCEPT !.key_data = key.key_data]
                ELSE key_tbl[k]]
          /\ raised' = ""
    /\ UNCHANGED <<keyset_tbl, inst, pc, stored>>
    /\ UNCHANGED <<queries, fieldvars>>

\* Keyset.generate_key(key_template)
GenerateKey(i, tmpl) ==
    /\ pc[i] = "idle"
    /\ inst[i].pk \in DOMAIN keyset_tbl
    /\ NextId(key_tbl) <= MaxKeys
    /\ LET key == GeneratedKey(inst[i].pk, tmpl)
       IN /\ key_tbl' = [k \in DOMAIN key_tbl \cup {key.id} |->
                IF k = key.id THEN key ELSE key_tbl[k]]
          /\ raised' = ""
    /\ UNCHANGED <<keyset_tbl, inst, pc, stored>>
    /\ UNCHANGED <<queries, fieldvars>>

SetPrimaryKeyAssignInvalidate(i, key_id) ==
    /\ pc[i] = "idle"
    /\ inst[i].pk \in DOMAIN keyset_tbl
    /\ inst' = [inst EXCEPT ![i].primary_key_id = key_id, ![i].pset = <<>>]
    /\ pc' = [pc EXCEPT ![i] = "save"]
    /\ UNCHANGED <<keyset_tbl, key_tbl, stored, raised>>
    /\ UNCHANGED <<queries, fieldvars>>

\* Keyset.set_primary_key, first half: self.primary_key_id = key_id.
SetPrimaryKeyAssign(i, key_id) ==
    /\ pc[i] = "idle"
    /\ inst[i].pk \in DOMAIN keyset_tbl
    /\ inst' = [inst EXCEPT ![i].primary_key_id = key_id]
    /\ pc' = [pc EXCEPT ![i] = "save"]
    /\ UNCHANGED <<keyset_tbl, key_tbl, stored, raised>>
    /\ UNCHANGED <<queries, fieldvars>>

\* Keyset.set_primary_key, second half: self.save(update_fields=["primary_key"]),
\* one UPDATE of the keyset's row.
SetPrimaryKeySave(i) ==
    /\ pc[i] = "save"
    /\ IF ForeignKeyOk(inst[i].primary_key_id)
       THEN /\ keyset_tbl' = UpdatePrimaryKey(inst[i].pk, inst[i].primary_key_id)
            /\ raised' = ""
       ELSE /\ raised' = "IntegrityError"
            /\ UNCHANGED keyset_tbl
    /\ pc' = [pc EXCEPT ![i] = "idle"]
    /\ UNCHANGED <<key_tbl, inst, stored>>
    /\ UNCHANGED <<queries, fieldvars>>

\* Command.promote_key(name, id), in a process of its own.
PromoteKey(name, id) ==
    /\ IF KeysetByName(name) = {}
       THEN /\ raised' = "CommandError"
            /\ UNCHANGED keyset_tbl
       ELSE LET ksid == CHOOSE k \in KeysetByName(name) : TRUE
            IN IF id \notin KeySet(ksid)
               THEN /\ raised' = "CommandError"
                    /\ UNCHANGED keyset_tbl
               ELSE /\ keyset_tbl' = UpdatePrimaryKey(ksid, id)
                    /\ raised' = ""
    /\ UNCHANGED <<key_tbl, inst, pc, stored>>
    /\ UNCHANGED <<queries, fieldvars>>

\* Command.create_key(name, template), in a process of its own.
CreateKey(name, tmpl) ==
    /\ IF KeysetByName(name) = {}
       THEN /\ raised' = "CommandError"
            /\ UNCHANGED key_tbl
       ELSE /\ NextId(key_tbl) <= MaxKeys
            /\ LET key == GeneratedKey(CHOOSE k \in KeysetByName(name) : TRUE, tmpl)
               IN /\ key_tbl' = [k \in DOMAIN key_tbl \cup {key.id} |->
                        IF k = key.id THEN key ELSE key_tbl[k]]
                  /\ raised' = ""
    /\ UNCHANGED <<keyset_tbl, inst, pc, stored>>
    /\ UNCHANGED <<queries, fieldvars>>

\* Key.status is the one mutable field of a Key: key.status = s; key.save().
SetKeyStatus(key_id, status) ==
    /\ key_id \in DOMAIN key_tbl
    /\ key_tbl[key_id].status # status
    /\ key_tbl' = [key_tbl EXCEPT ![key_id].status = status]
    /\ raised' = ""
    /\ UNCHANGED <<keyset_tbl, inst, pc, stored>>
    /\ UNCHANGED <<queries, fieldvars>>

\* --------------------------------------------------- encrypting, decrypting

\* Keyset.primitive(primitive_class): the wrapped primitive over the
\* keyset's index, which the first call builds (_primitive_set).
Primitive(i) ==
    /\ pc[i] = "idle"
    /\ inst[i].pk \in DOMAIN keyset_tbl
    /\ IF inst[i].pset # <<>>
       THEN /\ raised' = ""
            /\ UNCHANGED inst
       ELSE LET key == PrimaryKeyOf(inst[i])
            IN IF key = <<>>
               THEN /\ raised' = (IF inst[i].primary_key_id = NoKey THEN "AttributeError" ELSE "DoesNotExist")
                    /\ UNCHANGED inst
               ELSE /\ inst' = [inst EXCEPT ![i].pset = <<EmptyIndex>>]
                    /\ raised' = ""
    /\ UNCHANGED <<keyset_tbl, key_tbl, pc, stored>>
    /\ UNCHANGED <<queries, fieldvars>>

\* encrypt(plaintext, aad) of the wrapped primitive the process obtained:
\* primary() of the index, then the primary's identifier and ciphertext. The
\* application writes the ciphertext to the row it keeps, or drops it.
Encrypt(i, plaintext, aad, keep) ==
    /\ pc[i] = "idle"
    /\ inst[i].pset # <<>>
    /\ LET key == PrimaryKeyOf(inst[i])
       IN IF key = <<>>
          THEN /\ raised' = (IF inst[i].primary_key_id = NoKey THEN "AttributeError" ELSE "DoesNotExist")
               /\ UNCHANGED <<inst, stored>>
          ELSE LET p == Primary(inst[i].pset[1], key[1])
                   ct == WrappedEncrypt(p.entry, plaintext, aad)
               IN /\ inst' = [inst EXCEPT ![i].pset = <<p.ix>>]
                  /\ raised' = ""
                  /\ stored' =
                        IF keep
                        THEN {[ks |-> inst[i].pk, key |-> p.entry.key_id,
                               ct |-> ct, pt |-> plaintext, aad |-> aad]}
                        ELSE stored
    /\ UNCHANGED <<keyset_tbl, key_tbl, pc>>
    /\ UNCHANGED <<queries, fieldvars>>

\* decrypt(ciphertext, aad) of the wrapped primitive the process obtained.
Decrypt(i, ciphertext, aad) ==
    /\ pc[i] = "idle"
    /\ inst[i].pset # <<>>
    /\ LET d == WrappedDecrypt(inst[i].pset[1], inst[i].pk, ciphertext, aad)
       IN /\ inst' = [inst EXCEPT ![i].pset = <<d.ix>>]
          /\ raised' = (IF d.out = <<>> THEN "TinkError" ELSE "")
    /\ UNCHANGED <<keyset_tbl, key_tbl, pc, stored>>
    /\ UNCHANGED <<queries, fieldvars>>

\* ----------------------------------------------------------- specifications

\* The keyset store: every process runs every storage operation on every
\* keyset, and the administration commands run beside them. Keys are
\* generated from one template; storage does not look at the prefix type.
Next ==
    \/ \E i \in Instances, name \in Names, tmpl \in StoreTemplates : Create(i, name, tmpl)
    \/ \E i \in Instances, name \in Names : Load(i, name)
    \/ \E i \in Instances : RefreshFromDb(i)
    \/ \E i \in Instances : Save(i)
    \/ \E i \in Instances, tmpl \in StoreTemplates : GenerateKey(i, tmpl)
    \/ \E i \in Instances, key_id \in KeyIds : SetPrimaryKeyAssign(i, key_id)
    \/ \E i \in Instances : SetPrimaryKeySave(i)
    \/ \E name \in Names, id \in KeyIds : PromoteKey(name, id)
    \/ \E name \in Names, tmpl \in StoreTemplates : CreateKey(name, tmpl)

Spec == Init /\ [][Next]_vars

\* The process that administers the keyset, and the process that only loads it.
Admin == {"p1"}
Reader == {"p2"}

\* The keyset whose keys change status.
Rotated == {"aead"}

\* Key statuses: one process administers one keyset, whose keys are enabled,
\* disabled and destroyed while keys are promoted.
NextStatus ==
    \/ \E i \in Admin, name \in Rotated, tmpl \in Templates : Create(i, name, tmpl)
    \/ \E i \in Admin, tmpl \in Templates : GenerateKey(i, tmpl)
    \/ \E i \in Admin, key_id \in KeyIds : SetPrimaryKeyAssign(i, key_id)
    \/ \E i \in Admin : SetPrimaryKeySave(i)
    \/ \E name \in Rotated, id \in KeyIds : PromoteKey(name, id)
    \/ \E key_id \in KeyIds, status \in Statuses : SetKeyStatus(key_id, status)

SpecStatus == Init /\ [][NextStatus]_vars

\* Encryption across a rotation: one process creates the keyset, generates
\* keys in it and promotes keys of it, another loads it from storage, and
\* both encrypt and decrypt through the index of the object they hold.
NextCrypto ==
    \/ \E i \in Admin, name \in Rotated, tmpl \in Templates : Create(i, name, tmpl)
    \/ \E i \in Admin, tmpl \in Templates :
           /\ Cardinality(KeySet(inst[i].pk)) <= MaxRotations
           /\ GenerateKey(i, tmpl)
    \/ \E i \in Admin : \E key_id \in KeySet(inst[i].pk) :
           SetPrimaryKeyAssign(i, key_id)
    \/ \E i \in Admin : SetPrimaryKeySave(i)
    \/ \E i \in Reader, name \in Rotated : Load(i, name)
    \/ \E i \in Reader : RefreshFromDb(i)
    \/ \E i \in Instances : Primitive(i)
    \/ \E i \in Instances, keep \in BOOLEAN :
           Encrypt(i, TestData, AssocData, keep)
    \/ \E i \in Instances, s \in stored, aad \in Aads : Decrypt(i, s.ct, aad)

SpecCrypto == Init /\ [][NextCrypto]_vars

\* -------------------------------------------------------------- properties

\* The persisted primary designation of a keyset row.
PersistedPrimary(ksid) == keyset_tbl[ksid].primary_key_id

\* The Keys of a keyset that storage designates as its primary.
PrimaryKeys(ksid) == {k \in KeySet(ksid) : PersistedPrimary(ksid) = k}

\* C1: in every persisted state, every keyset that exists has exactly one of
\* its own Keys as its primary, never zero and never two.
C1_ExactlyOnePrimary ==
    \A ksid \in DOMAIN keyset_tbl : Cardinality(PrimaryKeys(ksid)) = 1

\* C2: Keyset.create commits the Keyset row together with its initial Key
\* designated primary: the row that a create step adds to storage names a Key
\* of that keyset as its primary from the moment it exists.
C2_CreateCommitsPrimary ==
    [][\A ksid \in DOMAIN keyset_tbl' \ DOMAIN keyset_tbl :
          /\ keyset_tbl'[ksid].primary_key_id # NoKey
          /\ keyset_tbl'[ksid].primary_key_id \in DOMAIN key_tbl'
          /\ key_tbl'[keyset_tbl'[ksid].primary_key_id].keyset_id = ksid]_vars

\* The step in which process i's set_primary_key call issues its UPDATE and
\* returns normally.
Commits(i) == pc[i] = "save" /\ pc'[i] = "idle" /\ raised' = ""

\* C7: set_primary_key calls that race on a keyset are linearized by their
\* UPDATEs: the first half of a call touches no row, the UPDATE of a call
\* writes that call's key into the keyset's row and nothing else, so after
\* each call completes the keyset has one primary, the key of the call whose
\* UPDATE came last, and no persisted state in between has none or two.
C7_Linearizable ==
    [][\A i \in Instances :
          /\ (pc[i] = "idle" /\ pc'[i] = "save") => keyset_tbl' = keyset_tbl
          /\ Commits(i) =>
                /\ keyset_tbl'[inst[i].pk].primary_key_id = inst[i].primary_key_id
                /\ inst[i].primary_key_id \in DOMAIN key_tbl
                /\ \A ksid \in DOMAIN keyset_tbl \ {inst[i].pk} :
                       keyset_tbl'[ksid] = keyset_tbl[ksid]]_vars

\* Two calls on the same keyset with different keys of it are in flight, after
\* an earlier call already gave the keyset a primary.
C7_Witness ==
    /\ pc["p1"] = "save" /\ pc["p2"] = "save"
    /\ inst["p1"].pk = inst["p2"].pk
    /\ inst["p1"].primary_key_id # inst["p2"].primary_key_id
    /\ {inst["p1"].primary_key_id, inst["p2"].primary_key_id} \subseteq KeySet(inst["p1"].pk)
    /\ PersistedPrimary(inst["p1"].pk) \in KeySet(inst["p1"].pk)
    /\ PersistedPrimary(inst["p1"].pk)
           \notin {inst["p1"].primary_key_id, inst["p2"].primary_key_id}

\* C8: set_primary_key with a key that is not a Key of this keyset fails and
\* leaves the persisted primary unchanged, so the primary a keyset designates
\* is always one of its own Keys.
C8_ForeignKeyRejected ==
    /\ [](\A ksid \in DOMAIN keyset_tbl :
             PersistedPrimary(ksid) # NoKey => PersistedPrimary(ksid) \in KeySet(ksid))
    /\ [][\A i \in Instances :
             (pc[i] = "save" /\ pc'[i] = "idle"
                 /\ inst[i].primary_key_id \notin KeySet(inst[i].pk))
             => (raised' # "" /\ keyset_tbl' = keyset_tbl)]_vars

\* C9: only an enabled Key becomes primary: a step that changes the persisted
\* primary of a keyset designates a Key whose status is ENABLED.
C9_OnlyEnabledPromoted ==
    [][\A ksid \in DOMAIN keyset_tbl :
          keyset_tbl'[ksid].primary_key_id # keyset_tbl[ksid].primary_key_id
              => /\ keyset_tbl'[ksid].primary_key_id \in DOMAIN key_tbl
                 /\ key_tbl[keyset_tbl'[ksid].primary_key_id].status = "ENABLED"]_vars

\* What generate_key on keyset ksid leaves behind: one new Key of that
\* keyset, enabled, which no keyset designates as primary; every Key row
\* that existed and every Keyset row as they were.
GenerateKeyFrame(ksid) ==
    /\ \E k \in DOMAIN key_tbl' \ DOMAIN key_tbl :
          /\ DOMAIN key_tbl' = DOMAIN key_tbl \cup {k}
          /\ key_tbl'[k].keyset_id = ksid
          /\ key_tbl'[k].status = "ENABLED"
          /\ \A other \in DOMAIN keyset_tbl' : keyset_tbl'[other].primary_key_id # k
    /\ \A k \in DOMAIN key_tbl : key_tbl'[k] = key_tbl[k]
    /\ keyset_tbl' = keyset_tbl

\* A step that inserts a Key row into a keyset that already exists.
AddsKey ==
    DOMAIN key_tbl' # DOMAIN key_tbl /\ DOMAIN keyset_tbl' = DOMAIN keyset_tbl

\* C10: generate_key(template), called on a Keyset object or through the
\* create-key command, adds exactly one new enabled, non-primary Key to that
\* keyset and changes no primary designation, no existing Key row and no
\* other keyset.
C10_GenerateKeyFrame ==
    [][AddsKey =>
          /\ \A i \in Instances, tmpl \in Templates :
                GenerateKey(i, tmpl) => GenerateKeyFrame(inst[i].pk)
          /\ \A name \in Names, tmpl \in Templates :
                CreateKey(name, tmpl)
                    => \E ksid \in KeysetByName(name) : GenerateKeyFrame(ksid)
          /\ \E ksid \in DOMAIN keyset_tbl : GenerateKeyFrame(ksid)]_vars

\* A keyset holds its primary and a later, non-primary Key beside it, and
\* another keyset exists.
C10_Witness ==
    /\ Cardinality(DOMAIN keyset_tbl) = 2
    /\ \E ksid \in DOMAIN keyset_tbl :
          /\ PersistedPrimary(ksid) \in KeySet(ksid)
          /\ \E k \in KeySet(ksid) : k > PersistedPrimary(ksid)
    /\ raised = ""

\* ------------------------------------------------ properties of encryption

\* The index of the object process i holds, once primitive() built it.
IndexOf(i) == inst[i].pset[1]

\* Process i holds a built index over a keyset whose primary key its object
\* resolves, so that encrypt through its primitive returns a ciphertext.
CanEncrypt(i) == inst[i].pset # <<>> /\ PrimaryKeyOf(inst[i]) # <<>>

\* The entry primary() hands the wrapped primitive of process i for its next
\* encrypt.
EncryptEntry(i) == Primary(IndexOf(i), PrimaryKeyOf(inst[i])[1]).entry

\* C3: a ciphertext produced under a key that is no longer the keyset's
\* primary still decrypts to its plaintext with the same associated data,
\* through the index of every object that holds one and through an object
\* loaded afresh, whose index is empty.
C3_OldCiphertextsDecrypt ==
    \A s \in stored :
        (PersistedPrimary(s.ks) \in KeySet(s.ks) \ {s.key}) =>
            /\ WrappedDecrypt(EmptyIndex, s.ks, s.ct, s.aad).out = <<s.pt>>
            /\ \A i \in Instances :
                  (inst[i].pk = s.ks /\ inst[i].pset # <<>>)
                      => WrappedDecrypt(IndexOf(i), s.ks, s.ct, s.aad).out = <<s.pt>>

\* The reader loaded the keyset after the rotation and decrypted a kept
\* ciphertext of the former primary: its index holds that key, fetched by
\* its prefix, beside a primary that is another key.
C3_Witness ==
    \E s \in stored :
        /\ PersistedPrimary(s.ks) \in KeySet(s.ks) \ {s.key}
        /\ inst["p2"].pk = s.ks /\ inst["p2"].pset # <<>>
        /\ inst["p2"].primary_key_id = PersistedPrimary(s.ks)
        /\ AllCachedKeyIds(IndexOf("p2")) = {s.key}
        /\ key_tbl[s.key].output_prefix_type = "TINK"
        /\ raised = ""

\* C4: once set_primary_key(k2) has returned on an object, encrypt through a
\* primitive obtained from that object before the rotation uses k2: the entry
\* primary() returns is k2's, and the ciphertext starts with k2's prefix.
C4_EncryptUsesPromoted ==
    [][\A i \in Instances :
          (Commits(i) /\ inst[i].pset # <<>>) =>
              /\ CanEncrypt(i)'
              /\ EncryptEntry(i)'.key_id = inst[i].primary_key_id
              /\ EncryptEntry(i)'.primitive = key_tbl[inst[i].primary_key_id].key_data
              /\ \A m \in Plaintexts :
                    SubSeq(WrappedEncrypt(EncryptEntry(i)', m, AssocData), 1,
                           Len(key_tbl[inst[i].primary_key_id].output_prefix))
                        = key_tbl[inst[i].primary_key_id].output_prefix]_vars

\* The administrator encrypted under k1, promoted k2 and encrypted again
\* through the same primitive: its index holds both keys, each under its own
\* prefix, and storage designates k2.
C4_Witness ==
    \E s \in stored :
        /\ pc["p1"] = "idle" /\ inst["p1"].pset # <<>>
        /\ inst["p1"].pk = s.ks
        /\ inst["p1"].primary_key_id # s.key
        /\ PersistedPrimary(s.ks) = inst["p1"].primary_key_id
        /\ {s.key, inst["p1"].primary_key_id} \subseteq AllCachedKeyIds(IndexOf("p1"))
        /\ key_tbl[s.key].output_prefix_type = "TINK"
        /\ key_tbl[inst["p1"].primary_key_id].output_prefix_type = "TINK"

\* C5: primary() follows storage: once a set_primary_key(k2) is committed,
\* the next encrypt of every other process that holds an object of that
\* keyset and can encrypt uses k2.
C5_OthersFollowStorage ==
    [][\A i \in Instances, j \in Instances :
          (i # j /\ Commits(i) /\ inst[j].pk = inst[i].pk /\ CanEncrypt(j)')
              => EncryptEntry(j)'.key_id = inst[i].primary_key_id]_vars

\* C6: in every state, through the primitive of every Keyset object a
\* process holds, encrypt returns a ciphertext for every plaintext m and
\* associated data aad, and decrypt of that ciphertext with aad returns m.
C6_RoundTrip ==
    \A i \in Instances :
        inst[i].pk \in DOMAIN keyset_tbl =>
            /\ PrimaryKeyOf(inst[i]) # <<>>
            /\ \A m \in Plaintexts, aad \in Aads :
                  LET ix == IF inst[i].pset = <<>> THEN EmptyIndex ELSE IndexOf(i)
                      p == Primary(ix, PrimaryKeyOf(inst[i])[1])
                      ct == WrappedEncrypt(p.entry, m, aad)
                  IN WrappedDecrypt(p.ix, inst[i].pk, ct, aad).out = <<m>>


C20_CreateDuplicateName ==
    [][\A i \in Instances, name \in Names, tmpl \in StoreTemplates :
          (Create(i, name, tmpl) /\ KeysetByName(name) # {})
              => /\ raised' = "IntegrityError"
                 /\ keyset_tbl' = keyset_tbl
                 /\ key_tbl' = key_tbl
                 /\ inst' = inst]_vars

\* A create has just failed on its name: the error is raised while every
\* object designates an existing key or none, so it is not the foreign-key
\* error of a save.
C20_Witness ==
    /\ raised = "IntegrityError"
    /\ \A i \in Instances :
          pc[i] = "idle" /\ inst[i].primary_key_id \in DOMAIN key_tbl \cup {NoKey}
    /\ \E ksid \in DOMAIN keyset_tbl :
          PersistedPrimary(ksid) \in KeySet(ksid) /\ Cardinality(KeySet(ksid)) >= 2


\* ------------------------------------------------- lookups in the index

\* The routing identifiers a caller looks up: the empty identifier of RAW
\* keys, and the TINK identifier of every key id.
Identifiers == {<<>>} \cup {OutputPrefix(k, "TINK") : k \in KeyIds}

\* self._keyset.key_set.exclude(id__in=list(self._all_cached_key_ids()))
Uncached(ix, ksid) == {k \in KeySet(ksid) : k \notin AllCachedKeyIds(ix)}

\* PrimitiveSet.all: the entry lists of the index, one per identifier.
SuperAll(ix) == {ix[idf] : idf \in DOMAIN ix}

PrimitiveSetAllCacheOnly(ix, ksid) == [ix |-> ix, entries |-> SuperAll(ix)]

\* _DatabasePrimitiveKeyset.all: the index after the call and the entry lists
\* it returns.
PrimitiveSetAll(ix, ksid) ==
    LET filled == AddKeysToCache(ix, InIdOrder(Uncached(ix, ksid)))
    IN [ix |-> filled, entries |-> SuperAll(filled)]

\* index.primitive_from_identifier(identifier), called on the index the
\* process built. The call returns a list, empty or not; it raises nothing.
Lookup(i, identifier) ==
    /\ pc[i] = "idle"
    /\ inst[i].pset # <<>>
    /\ LET r == PrimitiveFromIdentifier(inst[i].pset[1], inst[i].pk, identifier)
       IN /\ inst' = [inst EXCEPT ![i].pset = <<r.ix>>]
          /\ queries' = r.queries
    /\ raised' = ""
    /\ UNCHANGED <<keyset_tbl, key_tbl, pc, stored>>
    /\ UNCHANGED fieldvars

\* index.all(), called on the index the process built.
All(i) ==
    /\ pc[i] = "idle"
    /\ inst[i].pset # <<>>
    /\ inst' = [inst EXCEPT ![i].pset =
                  <<PrimitiveSetAll(inst[i].pset[1], inst[i].pk).ix>>]
    /\ raised' = ""
    /\ UNCHANGED <<keyset_tbl, key_tbl, pc, stored>>
    /\ UNCHANGED <<queries, fieldvars>>

\* index.primary(), called on the index the process built.
PrimaryEntry(i) ==
    /\ pc[i] = "idle"
    /\ inst[i].pset # <<>>
    /\ LET key == PrimaryKeyOf(inst[i])
       IN IF key = <<>>
          THEN /\ raised' = (IF inst[i].primary_key_id = NoKey THEN "AttributeError" ELSE "DoesNotExist")
               /\ UNCHANGED inst
          ELSE /\ inst' = [inst EXCEPT ![i].pset = <<Primary(inst[i].pset[1], key[1]).ix>>]
               /\ raised' = ""
    /\ UNCHANGED <<keyset_tbl, key_tbl, pc, stored>>
    /\ UNCHANGED <<queries, fieldvars>>

\* The index beside a changing keyset: one process creates the keyset, adds
\* keys to it and persists its primary, the status of its keys changes, and
\* another process loads the keyset and looks keys up in the index it built.
NextIndex ==
    \/ \E i \in Admin, name \in Rotated, tmpl \in Templates : Create(i, name, tmpl)
    \/ \E i \in Admin, tmpl \in Templates :
           /\ Cardinality(KeySet(inst[i].pk)) <= MaxRotations
           /\ GenerateKey(i, tmpl)
    \/ \E i \in Admin : Save(i)
    \/ \E key_id \in KeyIds, status \in Statuses : SetKeyStatus(key_id, status)
    \/ \E i \in Reader, name \in Rotated : Load(i, name)
    \/ \E i \in Reader : Primitive(i)
    \/ \E i \in Reader, identifier \in Identifiers : Lookup(i, identifier)
    \/ \E i \in Reader : All(i)
    \/ \E i \in Reader : PrimaryEntry(i)

SpecIndex == Init /\ [][NextIndex]_vars


\* The keys whose entries a list of index entries holds.
KeyIdsOf(entries) == {entries[n].key_id : n \in 1..Len(entries)}

\* The lookup of an identifier misses the index: the fast path of
\* primitive_from_identifier does not apply.
Miss(ix, identifier) == ~(Len(identifier) > 0 /\ identifier \in DOMAIN ix)

\* C11: on a cache miss, primitive_from_identifier(identifier) loads every Key
\* of this keyset that storage holds under that routing identifier and that
\* the index has not cached: after the call all of them are in the index and
\* in the entries returned, also a Key committed after the index was built.
C11_MissLoadsFromStorage ==
    [][\A i \in Instances, identifier \in Identifiers :
          (Lookup(i, identifier) /\ Miss(IndexOf(i), identifier))
              => \A k \in KeySet(inst[i].pk) :
                    key_tbl[k].output_prefix = identifier
                        => /\ k \in AllCachedKeyIds(IndexOf(i)')
                           /\ k \in KeyIdsOf(SuperPrimitiveFromIdentifier(IndexOf(i)', identifier))]_vars

\* The index of the loading process holds one key, which is not the first key
\* of the keyset nor the primary of the object: a key committed after the
\* keyset was created, which only a lookup of its identifier can have loaded
\* alone.
C11_Witness ==
    \E i \in Reader :
        /\ inst[i].pset # <<>>
        /\ \E k \in KeySet(inst[i].pk) :
              /\ AllCachedKeyIds(IndexOf(i)) = {k}
              /\ k # inst[i].primary_key_id
              /\ \E first \in KeySet(inst[i].pk) : first < k
              /\ Len(key_tbl[k].output_prefix) > 0


\* C12: primitive_from_identifier(identifier) fails with a key-not-found error
\* when, after the storage query, no Key of this keyset has that routing
\* identifier: a call that returns normally returns at least one candidate.
C12_NoKeyIsAnError ==
    [][\A i \in Instances, identifier \in Identifiers :
          (Lookup(i, identifier) /\ raised' = "")
              => SuperPrimitiveFromIdentifier(IndexOf(i)', identifier) # <<>>]_vars


\* C13: a destroyed Key is not loadable and what was encrypted under it no
\* longer decrypts: no call (primitive_from_identifier, all, primary) puts a
\* Key whose status is DESTROYED into an index that did not hold it, and a
\* ciphertext under a destroyed Key fails to decrypt through every index.
C13_DestroyedNotLoadable ==
    /\ [][\A i \in Instances :
             (inst[i].pset # <<>> /\ inst'[i].pset # <<>> /\ inst'[i].pk = inst[i].pk)
                 => \A k \in AllCachedKeyIds(IndexOf(i)') \ AllCachedKeyIds(IndexOf(i)) :
                       key_tbl[k].status # "DESTROYED"]_vars
    /\ [](\A i \in Instances :
             inst[i].pset # <<>>
                 => \A k \in KeySet(inst[i].pk) :
                       key_tbl[k].status = "DESTROYED"
                           => WrappedDecrypt(IndexOf(i), inst[i].pk,
                                  WrappedEncrypt(KeyEntry(key_tbl[k]), TestData, AssocData),
                                  AssocData).out = <<>>)


\* The keys that have an entry in a collection of entry lists.
KeyIdsIn(lists) == UNION {KeyIdsOf(entries) : entries \in lists}

\* C14: after all() returns, every enabled Key of the keyset that storage
\* held when the query ran is in the index and has an entry in the collection
\* returned, whatever subset of the keys the index held before the call.
C14_AllLoadsEveryEnabledKey ==
    [][\A i \in Instances :
          All(i) => \A k \in KeySet(inst[i].pk) :
                       key_tbl[k].status = "ENABLED"
                           => /\ k \in AllCachedKeyIds(IndexOf(i)')
                              /\ k \in KeyIdsIn(SuperAll(IndexOf(i)'))]_vars

\* The index of the loading process holds every Key of a keyset that has an
\* enabled Key and a Key that is not enabled, a RAW Key among them.
C14_Witness ==
    \E i \in Reader :
        /\ inst[i].pset # <<>>
        /\ raised = ""
        /\ Cardinality(KeySet(inst[i].pk)) >= 2
        /\ AllCachedKeyIds(IndexOf(i)) = KeySet(inst[i].pk)
        /\ \E k, d \in KeySet(inst[i].pk) :
              /\ key_tbl[k].status = "ENABLED" /\ key_tbl[d].status # "ENABLED"
              /\ key_tbl[k].output_prefix = <<>>


\* ------------------------------------------------- deterministic encryption

\* The keyset of the deterministic fields, and its key templates (AES256_SIV).
Deterministic == {"daead"}
DaeadTemplates ==
    { [type_url |-> "AesSivKey", output_prefix_type |-> "TINK"],
      [type_url |-> "AesSivKey", output_prefix_type |-> "RAW"] }

\* DeterministicAead.encrypt_deterministically of one key: the synthetic IV
\* computed from key material, plaintext and associated data, then the body
\* under the key material. Nothing in it is drawn at random.
DaeadEncrypt(primitive, plaintext, aad) ==
    <<Tag(primitive.value, plaintext, aad), primitive.value, plaintext>>

\* The wrapped DeterministicAead's encrypt_deterministically, once primary()
\* returned `entry`.
WrappedDaeadEncrypt(entry, plaintext, aad) ==
    entry.identifier \o DaeadEncrypt(entry.primitive, plaintext, aad)

\* daead_primitive.encrypt_deterministically(value, aad) in process i: the
\* ciphertext under the primary of the keyset object the process holds.
EncryptDeterministically(i, plaintext, aad) ==
    WrappedDaeadEncrypt(EncryptEntry(i), plaintext, aad)

\* DeterministicEncryptedField.get_db_prep_save, then the INSERT of the row:
\* the value is encrypted under the primary and the row is stored.
SaveRow(i, plaintext) ==
    /\ pc[i] = "idle"
    /\ inst[i].pset # <<>>
    /\ LET key == PrimaryKeyOf(inst[i])
       IN IF key = <<>>
          THEN /\ raised' = (IF inst[i].primary_key_id = NoKey THEN "AttributeError" ELSE "DoesNotExist")
               /\ UNCHANGED <<inst, stored>>
          ELSE LET p == Primary(inst[i].pset[1], key[1])
               IN /\ inst' = [inst EXCEPT ![i].pset = <<p.ix>>]
                  /\ raised' = ""
                  /\ stored' = stored \cup
                        {[ks |-> inst[i].pk, key |-> p.entry.key_id,
                          ct |-> WrappedDaeadEncrypt(p.entry, plaintext, AssocData),
                          pt |-> plaintext, aad |-> AssocData]}
    /\ UNCHANGED <<keyset_tbl, key_tbl, pc>>
    /\ UNCHANGED <<queries, fieldvars>>

\* get_prep_lookup of an exact lookup: the one value the query compares the
\* column with.
PrepLookup(i, value) == EncryptDeterministically(i, value, AssocData)

\* The rows the query WHERE column = <prepared lookup> returns.
Matches(i, value) == {s \in stored : s.ct = PrepLookup(i, value)}

\* Model.objects.filter(value=value) in process i: the lookup value is
\* prepared, which takes the primary from the index, and the query runs.
ExactLookup(i, value) ==
    /\ pc[i] = "idle"
    /\ inst[i].pset # <<>>
    /\ LET key == PrimaryKeyOf(inst[i])
       IN IF key = <<>>
          THEN /\ raised' = (IF inst[i].primary_key_id = NoKey THEN "AttributeError" ELSE "DoesNotExist")
               /\ UNCHANGED inst
          ELSE /\ inst' = [inst EXCEPT ![i].pset = <<Primary(inst[i].pset[1], key[1]).ix>>]
               /\ raised' = ""
    /\ UNCHANGED <<keyset_tbl, key_tbl, pc, stored>>
    /\ UNCHANGED <<queries, fieldvars>>

\* Deterministic fields across a rotation: one process creates the keyset,
\* generates keys in it and promotes keys of it, another loads it, and both
\* save rows holding one value and query them by value.
NextDaead ==
    \/ \E i \in Admin, name \in Deterministic, tmpl \in DaeadTemplates : Create(i, name, tmpl)
    \/ \E i \in Admin, tmpl \in DaeadTemplates :
           /\ Cardinality(KeySet(inst[i].pk)) <= MaxRotations
           /\ GenerateKey(i, tmpl)
    \/ \E i \in Admin : \E key_id \in KeySet(inst[i].pk) :
           SetPrimaryKeyAssign(i, key_id)
    \/ \E i \in Admin : SetPrimaryKeySave(i)
    \/ \E i \in Reader, name \in Deterministic : Load(i, name)
    \/ \E i \in Instances : Primitive(i)
    \/ \E i \in Instances : SaveRow(i, TestData)
    \/ \E i \in Instances, value \in Plaintexts : ExactLookup(i, value)

SpecDaead == Init /\ [][NextDaead]_vars


\* C15: after the primary of a deterministic keyset is rotated from k1 to k2,
\* an exact-match query for a value returns every row that holds the value:
\* the rows written under k1 before the rotation as well as those written
\* under k2 after it.
C15_QueryFindsRowsOfOldKeys ==
    \A i \in Instances : \A value \in Plaintexts :
        CanEncrypt(i)
            => Matches(i, value) = {s \in stored : s.ks = inst[i].pk /\ s.pt = value}

\* get_prep_lookup of an exact lookup, read as a candidate list: the
\* ciphertexts the query compares the column with.
Candidates(i, value) == {PrepLookup(i, value)}

\* C16: the candidate list built for an exact-match query on a deterministic
\* field holds one ciphertext for each enabled Key of the keyset, the Key's
\* routing identifier followed by its deterministic encryption of the value,
\* not only the primary's; it is not empty when the keyset has an enabled Key.
C16_OneCandidatePerEnabledKey ==
    \A i \in Instances : \A value \in Plaintexts :
        CanEncrypt(i)
            => Candidates(i, value) =
                  {WrappedDaeadEncrypt(KeyEntry(key_tbl[k]), value, AssocData) :
                      k \in {e \in KeySet(inst[i].pk) : key_tbl[e].status = "ENABLED"}}

\* C17: deterministic encryption is a function of primary key, plaintext and
\* associated data: a call returns the ciphertext an earlier call stored when
\* the same key is primary for the caller and plaintext and associated data
\* are the same, whatever the caller's index holds, and another ciphertext
\* when a different key is primary or the associated data differs.
C17_FunctionOfPrimaryKey ==
    \A s \in stored : \A i \in Instances : \A aad \in Aads :
        (CanEncrypt(i) /\ inst[i].pk = s.ks)
            => ((EncryptDeterministically(i, s.pt, aad) = s.ct)
                   <=> (PrimaryKeyOf(inst[i])[1].id = s.key /\ aad = s.aad))

\* A row was stored under a RAW key, and a process whose primary is another
\* RAW key of the keyset holds both keys in its index: both sit under the
\* empty identifier, and its encryption differs from the row.
C17_Witness ==
    \E s \in stored : \E i \in Instances :
        /\ CanEncrypt(i) /\ inst[i].pk = s.ks
        /\ PrimaryKeyOf(inst[i])[1].id # s.key
        /\ key_tbl[s.key].output_prefix = <<>>
        /\ PrimaryKeyOf(inst[i])[1].output_prefix = <<>>
        /\ {s.key, PrimaryKeyOf(inst[i])[1].id} \subseteq AllCachedKeyIds(IndexOf(i))


\* ------------------------------------------------- tampered ciphertexts

\* The values of a byte.
ByteRange == 256

\* The byte that differs from `byte` by one step, up or down:
\* tampered[0] = (tampered[0] + 1) % 256, and its opposite.
Altered(byte, up) ==
    IF up THEN (byte + 1) % ByteRange ELSE (byte + ByteRange - 1) % ByteRange

\* The stored row was changed after it was written: its column no longer is
\* the ciphertext of its plaintext under its key.
Tampered(s) == s.ct # WrappedEncrypt(KeyEntry(key_tbl[s.key]), s.pt, s.aad)

FromDbValueSwallow(ix, ksid, value, aad) ==
    IF value # <<>>
    THEN LET d == WrappedDecrypt(ix, ksid, value[1], aad)
         IN [ix |-> d.ix, raised |-> "", value |-> d.out]
    ELSE [ix |-> ix, raised |-> "", value |-> <<>>]

\* EncryptedField.from_db_value over the index of keyset ksid. The column is
\* <<bytes>>, or <<>> for NULL; the result is the index after the call, the
\* exception raised ("" when it returned) and the value returned, <<>> for
\* None.
FromDbValue(ix, ksid, value, aad) ==
    IF value # <<>>
    THEN LET d == WrappedDecrypt(ix, ksid, value[1], aad)
         IN [ix |-> d.ix,
             raised |-> (IF d.out = <<>> THEN "TinkError" ELSE ""),
             value |-> d.out]
    ELSE [ix |-> ix, raised |-> "", value |-> <<>>]

\* UPDATE ... SET column = tampered: one byte of the stored ciphertext, in
\* the routing identifier or in the body, is replaced behind the field's back.
Tamper(pos, up) ==
    /\ \E s \in stored :
          /\ ~Tampered(s)
          /\ pos \in 1..Len(s.ct)
          /\ stored' = {[s EXCEPT !.ct = [s.ct EXCEPT ![pos] = Altered(s.ct[pos], up)]]}
    /\ UNCHANGED <<keyset_tbl, key_tbl, inst, pc, raised>>
    /\ UNCHANGED <<queries, fieldvars>>

\* instance.refresh_from_db(): the column of the stored row goes through
\* from_db_value of the field, in process i.
ReadField(i) ==
    /\ pc[i] = "idle"
    /\ inst[i].pset # <<>>
    /\ \E s \in stored :
          LET r == FromDbValue(inst[i].pset[1], inst[i].pk, <<s.ct>>, s.aad)
          IN /\ inst' = [inst EXCEPT ![i].pset = <<r.ix>>]
             /\ raised' = r.raised
    /\ UNCHANGED <<keyset_tbl, key_tbl, pc, stored>>
    /\ UNCHANGED <<queries, fieldvars>>

\* The positions of a ciphertext: routing identifier and body.
Positions == 1..(NonRawPrefixSize + 4)

\* A stored field under attack: one process creates the keyset, generates
\* keys in it and promotes keys of it; another loads it, saves the field and
\* reads it back, and the stored ciphertext is tampered with in between.
NextTamper ==
    \/ \E i \in Admin, name \in Rotated, tmpl \in Templates : Create(i, name, tmpl)
    \/ \E i \in Admin, tmpl \in Templates :
           /\ Cardinality(KeySet(inst[i].pk)) <= MaxRotations
           /\ GenerateKey(i, tmpl)
    \/ \E i \in Admin : \E key_id \in KeySet(inst[i].pk) :
           SetPrimaryKeyAssign(i, key_id)
    \/ \E i \in Admin : SetPrimaryKeySave(i)
    \/ \E i \in Reader, name \in Rotated : Load(i, name)
    \/ \E i \in Reader : Primitive(i)
    \/ \E i \in Reader : Encrypt(i, TestData, AssocData, TRUE)
    \/ \E pos \in Positions, up \in BOOLEAN : Tamper(pos, up)
    \/ \E i \in Reader : ReadField(i)

SpecTamper == Init /\ [][NextTamper]_vars


\* C18: reading a stored ciphertext of which one byte was altered, in the
\* routing identifier or in the body, fails with the decryption error: the
\* field returns neither another plaintext nor None, through the index a
\* process holds and through an empty one; and no read, of an altered
\* ciphertext or of an intact one, returns a plaintext other than the one
\* that was encrypted.
C18_TamperDetected ==
    \A s \in stored :
        /\ \A ix \in {EmptyIndex} \cup
                     {IndexOf(i) : i \in {p \in Instances :
                                             inst[p].pset # <<>> /\ inst[p].pk = s.ks}} :
              LET r == FromDbValue(ix, s.ks, <<s.ct>>, s.aad)
              IN /\ r.value \in {<<>>, <<s.pt>>}
                 /\ Tampered(s) => (r.raised = "TinkError" /\ r.value = <<>>)

\* A read has just raised the decryption error on a ciphertext whose altered
\* routing identifier is the identifier of another key of the keyset.
C18_Witness ==
    \E s \in stored :
        /\ Tampered(s)
        /\ raised = "TinkError"
        /\ \E k \in KeySet(s.ks) \ {s.key} :
              /\ Len(key_tbl[k].output_prefix) > 0
              /\ SubSeq(s.ct, 1, NonRawPrefixSize) = key_tbl[k].output_prefix


\* ------------------------------------------------------- algorithm families

\* Every key template a caller can name: the AEAD templates and the
\* deterministic-AEAD templates (get_key_template_by_name looks in both).
AllTemplates == Templates \cup DaeadTemplates

\* The primitive a key manager builds for a key type: Aead for AES-GCM keys,
\* DeterministicAead for AES-SIV keys.
Family(type_url) ==
    IF type_url = "AesSivKey" THEN "DeterministicAead" ELSE "Aead"

\* Keysets that receive keys from every template: processes create keysets
\* and add keys to them, and the create-key command does the same by name.
NextFamily ==
    \/ \E i \in Instances, name \in Names, tmpl \in AllTemplates : Create(i, name, tmpl)
    \/ \E i \in Instances, name \in Names : Load(i, name)
    \/ \E i \in Instances, tmpl \in AllTemplates : GenerateKey(i, tmpl)
    \/ \E name \in Names, tmpl \in AllTemplates : CreateKey(name, tmpl)

SpecFamily == Init /\ [][NextFamily]_vars

\* C21: generate_key(template) fails with a configuration error and creates
\* no Key row when the template's family differs from the family of the
\* keyset's keys, so that all Keys of a keyset are of one family.
C21_OneFamilyPerKeyset ==
    /\ [][\A i \in Instances, tmpl \in AllTemplates :
             (GenerateKey(i, tmpl)
                 /\ \E k \in KeySet(inst[i].pk) :
                       Family(key_tbl[k].type_url) # Family(tmpl.type_url))
                 => (raised' # "" /\ key_tbl' = key_tbl)]_vars
    /\ [](\A ksid \in DOMAIN keyset_tbl : \A k, other \in KeySet(ksid) :
             Family(key_tbl[k].type_url) = Family(key_tbl[other].type_url))


\* Process i takes a step of set_primary_key: the assignment or the UPDATE.
InSetPrimaryKey(i) ==
    \/ pc[i] = "idle" /\ pc'[i] = "save"
    \/ pc[i] = "save" /\ pc'[i] = "idle"

\* C22: set_primary_key changes only the primary designation of its keyset:
\* no Key row is modified, no Keyset row is added or renamed, no other keyset
\* is touched, and the index of every process, the caller's included, keeps
\* exactly the entries it had, so a promotion needs no cache invalidation.
C22_SetPrimaryKeyFrame ==
    [][\A i \in Instances :
          InSetPrimaryKey(i)
              => /\ key_tbl' = key_tbl
                 /\ \A j \in Instances :
                       inst'[j].pset = inst[j].pset /\ inst'[j].pk = inst[j].pk
                 /\ DOMAIN keyset_tbl' = DOMAIN keyset_tbl
                 /\ \A ksid \in DOMAIN keyset_tbl :
                       /\ keyset_tbl'[ksid].name = keyset_tbl[ksid].name
                       /\ ksid # inst[i].pk => keyset_tbl'[ksid] = keyset_tbl[ksid]]_vars

\* A promotion was persisted by a process whose index held the former
\* primary, and the index still holds it.
C22_Witness ==
    \E i \in Admin :
        /\ pc[i] = "idle" /\ raised = ""
        /\ inst[i].pset # <<>>
        /\ PersistedPrimary(inst[i].pk) = inst[i].primary_key_id
        /\ \E k \in AllCachedKeyIds(IndexOf(i)) :
              k < inst[i].primary_key_id /\ k \in KeySet(inst[i].pk)
        /\ inst[i].primary_key_id \notin AllCachedKeyIds(IndexOf(i))


\* ------------------------------------------------------------ the Key rows

\* Every operation on a keyset and its index, beside the retirement of keys:
\* one process creates the keyset, generates keys in it and promotes keys of
\* it, keys are disabled, and another process loads the keyset, fills its
\* index, encrypts (which calls primary) and decrypts (which calls
\* primitive_from_identifier).
NextRows ==
    \/ \E i \in Admin, name \in Rotated, tmpl \in Templates : Create(i, name, tmpl)
    \/ \E i \in Admin, tmpl \in Templates :
           /\ Cardinality(KeySet(inst[i].pk)) <= MaxRotations
           /\ GenerateKey(i, tmpl)
    \/ \E i \in Admin : \E key_id \in KeySet(inst[i].pk) :
           SetPrimaryKeyAssign(i, key_id)
    \/ \E i \in Admin : SetPrimaryKeySave(i)
    \/ \E key_id \in KeyIds : SetKeyStatus(key_id, "DISABLED")
    \/ \E i \in Reader, name \in Rotated : Load(i, name)
    \/ \E i \in Reader : Primitive(i)
    \/ \E i \in Reader : All(i)
    \/ \E i \in Reader : Encrypt(i, TestData, AssocData, TRUE)
    \/ \E i \in Reader, s \in stored : Decrypt(i, s.ct, AssocData)

SpecRows == Init /\ [][NextRows]_vars


\* The fields of a Key row that are fixed at creation: everything but status.
Immutable(key) ==
    [id |-> key.id, keyset_id |-> key.keyset_id, type_url |-> key.type_url,
     key_data |-> key.key_data, output_prefix_type |-> key.output_prefix_type,
     output_prefix |-> key.output_prefix]

\* C23: once a Key row is committed, no operation (generate_key,
\* set_primary_key, all, encrypt with its primary(), decrypt with its
\* primitive_from_identifier) deletes it or changes its key material,
\* type_url, output prefix type, routing identifier or owning keyset; a
\* rotation adds a row and rewrites none.
C23_KeyRowsImmutable ==
    [][\A k \in DOMAIN key_tbl :
          /\ k \in DOMAIN key_tbl'
          /\ Immutable(key_tbl'[k]) = Immutable(key_tbl[k])]_vars

\* After a rotation: the keyset has a later key as its persisted primary, the
\* former primary was disabled, a ciphertext is stored, and the loading
\* process holds every key in its index.
C23_Witness ==
    \E i \in Reader :
        /\ inst[i].pset # <<>>
        /\ Cardinality(KeySet(inst[i].pk)) >= 2
        /\ AllCachedKeyIds(IndexOf(i)) = KeySet(inst[i].pk)
        /\ stored # {}
        /\ \E k \in KeySet(inst[i].pk) :
              /\ k < PersistedPrimary(inst[i].pk)
              /\ key_tbl[k].status = "DISABLED"


\* C30: index fills are idempotent by key id: after any sequence of
\* primitive_from_identifier, all and primary calls on an index, a key id has
\* at most one entry in it, under one identifier and at one position, so
\* loading a key that is cached adds nothing.
C30_OneEntryPerKey ==
    \A i \in Instances :
        inst[i].pset # <<>> =>
            \A idf, other \in DOMAIN IndexOf(i) :
                \A n \in 1..Len(IndexOf(i)[idf]) : \A m \in 1..Len(IndexOf(i)[other]) :
                    IndexOf(i)[idf][n].key_id = IndexOf(i)[other][m].key_id
                        => (idf = other /\ n = m)

\* The index holds every key of a keyset, two of them RAW keys that share the empty identifier, and the primary of the object.
C30_Witness ==
    \E i \in Reader :
        /\ inst[i].pset # <<>>
        /\ raised = ""
        /\ AllCachedKeyIds(IndexOf(i)) = KeySet(inst[i].pk)
        /\ <<>> \in DOMAIN IndexOf(i) /\ Len(IndexOf(i)[<<>>]) = 2
        /\ inst[i].primary_key_id \in AllCachedKeyIds(IndexOf(i))


\* C29: primitive_from_identifier with a non-empty identifier that the index
\* already holds returns the cached entries and issues no storage query: the
\* index is left as it was, also when storage has changed since the entry
\* was cached.
C29_FastPathReadsNothing ==
    [][\A i \in Instances, identifier \in Identifiers :
          (Lookup(i, identifier)
              /\ Len(identifier) > 0 /\ identifier \in DOMAIN IndexOf(i))
              => /\ queries' = 0
                 /\ IndexOf(i)' = IndexOf(i)]_vars

\* A lookup has just been answered without a query: the index holds one TINK
\* key, which is not the primary of the object and not the only key of the
\* keyset, so a lookup that queried storage loaded it and a later lookup of
\* its identifier found it cached; its row was disabled in between.
C29_Witness ==
    \E i \in Reader :
        /\ inst[i].pset # <<>>
        /\ queries = 0 /\ raised = ""
        /\ \E k \in KeySet(inst[i].pk) :
              /\ AllCachedKeyIds(IndexOf(i)) = {k}
              /\ k # inst[i].primary_key_id
              /\ Len(key_tbl[k].output_prefix) > 0
              /\ key_tbl[k].status = "DISABLED"
              /\ IndexOf(i)[key_tbl[k].output_prefix][1].status = "ENABLED"
        /\ Cardinality(KeySet(inst[i].pk)) >= 2


\* ------------------------------------------------------------------ exports

\* Rows of a Key table, in primary-key order.
RECURSIVE RowsInIdOrder(_, _)
RowsInIdOrder(keys, ids) ==
    IF ids = {} THEN <<>>
    ELSE LET lo == CHOOSE x \in ids : \A y \in ids : x <= y
         IN <<keys[lo]>> \o RowsInIdOrder(keys, ids \ {lo})

\* keyset.key_set.all() over a Key table.
KeySetAll(keys, ksid) ==
    RowsInIdOrder(keys, {k \in DOMAIN keys : keys[k].keyset_id = ksid})

KeyInfoWithData(key) ==
    [type_url |-> key.type_url, status |-> key.status, key_id |-> key.id,
     output_prefix_type |-> key.output_prefix_type, key_data |-> key.key_data]

\* Key.key_info: tink_pb2.KeysetInfo.KeyInfo
KeyInfo(key) ==
    [type_url |-> key.type_url, status |-> key.status, key_id |-> key.id,
     output_prefix_type |-> key.output_prefix_type]

\* Key.key: tink_pb2.Keyset.Key
KeyProto(key) ==
    [key_data |-> key.key_data, status |-> key.status, key_id |-> key.id,
     output_prefix_type |-> key.output_prefix_type]

\* Keyset.export_keyset_info of the keyset object o, over a Key table.
ExportKeysetInfo(o, keys) ==
    LET rows == KeySetAll(keys, o.pk)
    IN [kind |-> "KeysetInfo", primary_key_id |-> o.primary_key_id,
        key_info |-> [n \in 1..Len(rows) |-> KeyInfo(rows[n])]]

\* Keyset.export_keyset of the keyset object o, over a Key table.
ExportKeyset(o, keys) ==
    LET rows == KeySetAll(keys, o.pk)
    IN [kind |-> "Keyset", primary_key_id |-> o.primary_key_id,
        key |-> [n \in 1..Len(rows) |-> KeyProto(rows[n])]]

\* Keyset.objects.get(name=name) in a command: the object read from the row.
Loaded(name) ==
    LET row == keyset_tbl[CHOOSE k \in KeysetByName(name) : TRUE]
    IN [pk |-> row.id, primary_key_id |-> row.primary_key_id]

\* Command.export_keyset_info(name), in a process of its own.
ExportKeysetInfoCommand(name) ==
    /\ IF KeysetByName(name) = {}
       THEN /\ raised' = "CommandError"
            /\ UNCHANGED exported
       ELSE /\ exported' = <<ExportKeysetInfo(Loaded(name), key_tbl)>>
            /\ raised' = ""
    /\ UNCHANGED <<keyset_tbl, key_tbl, inst, pc, stored>>
    /\ UNCHANGED <<queries, settings, manager, message, processvars>>

\* Command.unsafe_export_keyset(name), in a process of its own.
UnsafeExportKeysetCommand(name) ==
    /\ IF KeysetByName(name) = {}
       THEN /\ raised' = "CommandError"
            /\ UNCHANGED exported
       ELSE /\ exported' = <<ExportKeyset(Loaded(name), key_tbl)>>
            /\ raised' = ""
    /\ UNCHANGED <<keyset_tbl, key_tbl, inst, pc, stored>>
    /\ UNCHANGED <<queries, settings, manager, message, processvars>>

\* Exports beside key management: one process creates the keyset, generates
\* keys in it and promotes keys of it, keys are disabled, and the export
\* commands run by name.
NextExport ==
    \/ \E i \in Admin, name \in Rotated, tmpl \in Templates : Create(i, name, tmpl)
    \/ \E i \in Admin, tmpl \in Templates :
           /\ Cardinality(KeySet(inst[i].pk)) <= MaxRotations
           /\ GenerateKey(i, tmpl)
    \/ \E i \in Admin : \E key_id \in KeySet(inst[i].pk) :
           SetPrimaryKeyAssign(i, key_id)
    \/ \E i \in Admin : SetPrimaryKeySave(i)
    \/ \E key_id \in KeyIds : SetKeyStatus(key_id, "DISABLED")
    \/ \E name \in Names : ExportKeysetInfoCommand(name)
    \/ \E name \in Names : UnsafeExportKeysetCommand(name)

SpecExport == Init /\ [][NextExport]_vars


\* The Key table with other key material in every row: the same keysets,
\* differing in key_data only.
Rekeyed ==
    [k \in DOMAIN key_tbl |->
        [key_tbl[k] EXCEPT !.key_data = [@ EXCEPT !.value = @ + MaxKeys]]]

\* C27: export_keyset_info returns the primary key id and, for every Key of
\* the keyset, type_url, status, key id and output prefix type and nothing
\* else: its output is the same for a keyset that differs in key material
\* only; export_keyset returns every Key of the keyset with its key material.
C27_InfoHasNoKeyMaterial ==
    [][\A name \in Names :
          /\ (ExportKeysetInfoCommand(name) /\ raised' = "")
                => /\ exported'[1] = ExportKeysetInfo(Loaded(name), Rekeyed)
                   /\ exported'[1].primary_key_id = Loaded(name).primary_key_id
                   /\ Len(exported'[1].key_info) = Cardinality(KeySet(Loaded(name).pk))
                   /\ \A n \in 1..Len(exported'[1].key_info) :
                         /\ DOMAIN exported'[1].key_info[n] =
                               {"type_url", "status", "key_id", "output_prefix_type"}
                         /\ exported'[1].key_info[n] =
                               KeyInfo(key_tbl[exported'[1].key_info[n].key_id])
          /\ (UnsafeExportKeysetCommand(name) /\ raised' = "")
                => /\ Len(exported'[1].key) = Cardinality(KeySet(Loaded(name).pk))
                   /\ \A k \in KeySet(Loaded(name).pk) :
                         \E n \in 1..Len(exported'[1].key) :
                            /\ exported'[1].key[n].key_id = k
                            /\ exported'[1].key[n].key_data = key_tbl[k].key_data]_vars

\* The info of a rotated keyset was exported: two keys, one of them disabled,
\* and the later key as primary.
C27_Witness ==
    /\ exported # <<>>
    /\ exported[1].kind = "KeysetInfo"
    /\ Len(exported[1].key_info) = 2
    /\ exported[1].key_info[1].status = "DISABLED"
    /\ exported[1].primary_key_id = exported[1].key_info[2].key_id
    /\ raised = ""



\* ------------------------------------------------ the configuration of a field

\* The messages of the ImproperlyConfigured errors, without their backquotes.
NoSettingsMessage == "Could not find TINK_FIELDS_CONFIG attribute in settings."
NoKeysetMessage == "Could not find configuration for keyset {keyset_name} in TINK_FIELDS_CONFIG."
EmptyPathMessage == "Keyset path cannot be None or empty."
NoFileMessage == "Keyset {path} does not exist."
NoMasterKeyMessage == "Encrypted keysets must specify master_key_aead."

\* Path(path).exists()
Exists(path) == path \in Files

ValidateMasterKeyFirst(c) ==
    IF c.path = "" THEN EmptyPathMessage
    ELSE IF ~c.cleartext /\ ~c.master_key_aead THEN NoMasterKeyMessage
    ELSE IF ~Exists(c.path) THEN NoFileMessage
    ELSE ""

\* KeysetConfig.validate, run by __post_init__: the message of the
\* ImproperlyConfigured it raises, "" when it returns.
Validate(c) ==
    IF c.path = "" THEN EmptyPathMessage
    ELSE IF ~Exists(c.path) THEN NoFileMessage
    ELSE IF ~c.cleartext /\ ~c.master_key_aead THEN NoMasterKeyMessage
    ELSE ""

\* KeysetManager._get_config followed by the test that the keyset is named in
\* it: the message of the ImproperlyConfigured raised, "" when both pass.
ValidateConfig(s, keyset_name) ==
    IF s = <<>> THEN NoSettingsMessage
    ELSE IF keyset_name \notin DOMAIN s[1] THEN NoKeysetMessage
    ELSE ""

\* KeysetManager._get_tink_keyset_handle of a manager that holds no handle
\* yet: the configuration is looked up again, KeysetConfig is constructed from
\* the entry of the keyset, which validates it, and the keyset file is read.
GetTinkKeysetHandle(s, keyset_name) ==
    IF ValidateConfig(s, keyset_name) # ""
    THEN ValidateConfig(s, keyset_name)
    ELSE Validate(s[1][keyset_name])

\* EncryptedField.__init__, which constructs the KeysetManager of the field:
\* KeysetManager.__init__ runs _validate_config and nothing else.
KeysetManagerInit(keyset_name) ==
    /\ LET m == ValidateConfig(settings, keyset_name)
       IN /\ raised' = (IF m = "" THEN "" ELSE "ImproperlyConfigured")
          /\ message' = m
          /\ manager' = (IF m = "" THEN <<[keyset_name |-> keyset_name, handle |-> FALSE]>>
                                   ELSE <<>>)
    /\ UNCHANGED <<keyset_tbl, key_tbl, inst, pc, stored, queries, settings, exported>>
    /\ UNCHANGED processvars

\* KeysetManager.aead_primitive, read by get_db_prep_save and from_db_value of
\* a value that is not None: the handle is taken from the manager, or read on
\* the first use.
AeadPrimitive ==
    /\ manager # <<>>
    /\ LET m == IF manager[1].handle THEN ""
                ELSE GetTinkKeysetHandle(settings, manager[1].keyset_name)
       IN /\ raised' = (IF m = "" THEN "" ELSE "ImproperlyConfigured")
          /\ message' = m
          /\ manager' = (IF m = "" THEN <<[manager[1] EXCEPT !.handle = TRUE]>> ELSE manager)
    /\ UNCHANGED <<keyset_tbl, key_tbl, inst, pc, stored, queries, settings, exported>>
    /\ UNCHANGED processvars

\* The settings a project can run with: no TINK_FIELDS_CONFIG, or one that
\* configures "default" alone or both keysets, each entry in any way.
SettingsSpace ==
    {<<>>} \cup {<<d>> : d \in [{"default"} -> ConfigEntries] \cup [ConfigNames -> ConfigEntries]}

InitConfig ==
    /\ keyset_tbl = <<>>
    /\ key_tbl = <<>>
    /\ inst = [i \in Instances |-> NoInstance]
    /\ pc = [i \in Instances |-> "idle"]
    /\ stored = {}
    /\ raised = ""
    /\ queries = 0
    /\ settings \in SettingsSpace
    /\ manager = <<>>
    /\ message = ""
    /\ exported = <<>>
    /\ callers = [t \in Callers |-> Returned]
    /\ txn = [i \in Instances |-> <<>>]
    /\ handle_cache = [k \in {} |-> 0]
    /\ file_reads = <<>>

\* A field under each configuration: it is constructed, and then used.
NextConfig ==
    \/ \E keyset_name \in FieldKeysets : KeysetManagerInit(keyset_name)
    \/ AeadPrimitive

SpecConfig == InitConfig /\ [][NextConfig]_vars

\* The first use of the field a step makes: the manager holds no handle yet.
FirstUse == manager # <<>> /\ ~manager[1].handle /\ AeadPrimitive

\* C24: a field whose configuration is invalid fails at construction; no
\* configuration error is first raised by the first encrypt or decrypt call.
C24_NoErrorAtFirstUse ==
    [][FirstUse => raised' # "ImproperlyConfigured"]_vars

\* The entry of TINK_FIELDS_CONFIG the manager of the field is configured by.
Entry == settings[1][manager[1].keyset_name]

\* C28: constructing a KeysetConfig fails with ImproperlyConfigured when the
\* path is empty or None, when the path does not exist, or when cleartext is
\* false and no master_key_aead is given, the checks made in that order; it
\* succeeds otherwise.
C28_ChecksInOrder ==
    [][FirstUse =>
          /\ (raised' = "ImproperlyConfigured") <=>
                \/ Entry.path = ""
                \/ Entry.path \notin Files
                \/ ~Entry.cleartext /\ ~Entry.master_key_aead
          /\ Entry.path = "" => message' = EmptyPathMessage
          /\ (Entry.path # "" /\ Entry.path \notin Files) => message' = NoFileMessage
          /\ (Entry.path \in Files /\ ~Entry.cleartext /\ ~Entry.master_key_aead)
                => message' = NoMasterKeyMessage
          /\ raised' = "" => (message' = "" /\ manager'[1].handle)]_vars

\* A KeysetConfig was constructed from an entry whose path does not exist and
\* which is encrypted without a master key: the path is what it reports.
C28_Witness ==
    /\ manager # <<>> /\ ~manager[1].handle
    /\ raised = "ImproperlyConfigured" /\ message = NoFileMessage
    /\ Entry.path # "" /\ ~Entry.cleartext /\ ~Entry.master_key_aead



\* ------------------------------------------------------ the values of a field

\* None, as the value of a model attribute: no plaintext.
None == 0

\* The values the application assigns to a nullable encrypted field.
FieldValues == {None, TestData}

\* The lookups of models.Field.class_lookups that queries are written with.
Lookups == {"exact", "iexact", "contains", "icontains", "gt", "in", "isnull"}

\* The keyset of the AEAD fields.
Probabilistic == {"aead"}

\* DeterministicAead.decrypt_deterministically of one key: <<plaintext>> when
\* the body is under this key and the synthetic IV verifies, <<>> otherwise.
DaeadDecrypt(primitive, ciphertext, aad) ==
    IF Len(ciphertext) = 3 /\ ciphertext[2] = primitive.value
       /\ ciphertext[1] = Tag(primitive.value, ciphertext[3], aad)
    THEN <<ciphertext[3]>> ELSE <<>>

\* for entry in entries: try: return entry.primitive.decrypt_deterministically
RECURSIVE TryDaeadEntries(_, _, _)
TryDaeadEntries(entries, ciphertext, aad) ==
    IF entries = <<>> THEN <<>>
    ELSE LET got == DaeadDecrypt(Head(entries).primitive, ciphertext, aad)
         IN IF got # <<>> THEN got ELSE TryDaeadEntries(Tail(entries), ciphertext, aad)

\* The wrapped DeterministicAead's decrypt_deterministically over the index
\* of keyset ksid: the entries of the prefix first, the RAW entries after.
WrappedDaeadDecrypt(ix, ksid, ciphertext, aad) ==
    LET byPrefix ==
            IF Len(ciphertext) > NonRawPrefixSize
            THEN PrimitiveFromIdentifier(ix, ksid,
                     SubSeq(ciphertext, 1, NonRawPrefixSize))
            ELSE [ix |-> ix, entries |-> <<>>]
        first == TryDaeadEntries(byPrefix.entries,
                     SubSeq(ciphertext, NonRawPrefixSize + 1, Len(ciphertext)), aad)
        raw == PrimitiveFromIdentifier(byPrefix.ix, ksid, <<>>)
    IN IF first # <<>> THEN [ix |-> byPrefix.ix, out |-> first]
       ELSE [ix |-> raw.ix, out |-> TryDaeadEntries(raw.entries, ciphertext, aad)]

\* DeterministicEncryptedField.from_db_value over the index of keyset ksid,
\* with the column, the result and the exception as in FromDbValue.
DeterministicFromDbValue(ix, ksid, value, aad) ==
    IF value # <<>>
    THEN LET d == WrappedDaeadDecrypt(ix, ksid, value[1], aad)
         IN [ix |-> d.ix,
             raised |-> (IF d.out = <<>> THEN "TinkError" ELSE ""),
             value |-> d.out]
    ELSE [ix |-> ix, raised |-> "", value |-> <<>>]

\* The column of a stored row as the database hands it to from_db_value:
\* <<>> for NULL, <<bytes>> otherwise.
Column(s) == IF s.ct = <<>> THEN <<>> ELSE <<s.ct>>

\* The row a field leaves when None was saved: the column is NULL, and no key
\* had a part in it.
NullRow(ksid) ==
    [ks |-> ksid, key |-> NoKey, ct |-> <<>>, pt |-> None, aad |-> AssocData]

\* The field of the model that process i works with is deterministic: it is
\* declared over the keyset of the deterministic fields.
OverDeterministic(i) ==
    /\ inst[i].pk \in DOMAIN keyset_tbl
    /\ keyset_tbl[inst[i].pk].name \in Deterministic

\* The row get_db_prep_save leaves for a value that is not None, encrypted
\* under `entry`.
EncryptedRow(deterministic, ksid, entry, value) ==
    [ks |-> ksid, key |-> entry.key_id,
     ct |-> (IF deterministic THEN WrappedDaeadEncrypt(entry, value, AssocData)
                              ELSE WrappedEncrypt(entry, value, AssocData)),
     pt |-> value, aad |-> AssocData]

SaveFieldEncryptsNone(i, deterministic, value) ==
    /\ pc[i] = "idle"
    /\ inst[i].pset # <<>>
    /\ deterministic = OverDeterministic(i)
    /\ LET key == PrimaryKeyOf(inst[i])
       IN IF key = <<>>
          THEN /\ raised' = (IF inst[i].primary_key_id = NoKey THEN "AttributeError" ELSE "DoesNotExist")
               /\ UNCHANGED <<inst, stored>>
          ELSE LET p == Primary(inst[i].pset[1], key[1])
               IN /\ inst' = [inst EXCEPT ![i].pset = <<p.ix>>]
                  /\ raised' = ""
                  /\ stored' = stored \cup
                        {EncryptedRow(deterministic, inst[i].pk, p.entry, value)}
    /\ UNCHANGED <<keyset_tbl, key_tbl, pc>>
    /\ UNCHANGED <<queries, fieldvars>>

\* get_db_prep_save of EncryptedField and of DeterministicEncryptedField, then
\* the INSERT of the row: None goes to the column as NULL and the primitive
\* is not asked for; any other value is encrypted under the primary.
SaveField(i, deterministic, value) ==
    /\ pc[i] = "idle"
    /\ IF value = None
       THEN /\ stored' = stored \cup {NullRow(inst[i].pk)}
            /\ raised' = ""
            /\ UNCHANGED inst
       ELSE /\ inst[i].pset # <<>>
            /\ deterministic = OverDeterministic(i)
            /\ LET key == PrimaryKeyOf(inst[i])
               IN IF key = <<>>
                  THEN /\ raised' = (IF inst[i].primary_key_id = NoKey THEN "AttributeError" ELSE "DoesNotExist")
                       /\ UNCHANGED <<inst, stored>>
                  ELSE LET p == Primary(inst[i].pset[1], key[1])
                       IN /\ inst' = [inst EXCEPT ![i].pset = <<p.ix>>]
                          /\ raised' = ""
                          /\ stored' = stored \cup
                                {EncryptedRow(deterministic, inst[i].pk, p.entry, value)}
    /\ UNCHANGED <<keyset_tbl, key_tbl, pc>>
    /\ UNCHANGED <<queries, fieldvars>>

\* from_db_value of the field, deterministic or not, over an index.
FieldFromDbValue(deterministic, ix, ksid, value, aad) ==
    IF deterministic THEN DeterministicFromDbValue(ix, ksid, value, aad)
                     ELSE FromDbValue(ix, ksid, value, aad)

\* instance.refresh_from_db() in process i: the column of a stored row goes
\* through from_db_value. A NULL column asks nothing of the primitive.
ReadRow(i, deterministic) ==
    /\ pc[i] = "idle"
    /\ \E s \in stored :
          IF Column(s) = <<>>
          THEN /\ raised' = ""
               /\ UNCHANGED inst
          ELSE /\ inst[i].pset # <<>>
               /\ inst[i].pk = s.ks
               /\ deterministic = OverDeterministic(i)
               /\ LET r == FieldFromDbValue(deterministic, inst[i].pset[1], s.ks,
                                            Column(s), s.aad)
                  IN /\ inst' = [inst EXCEPT ![i].pset = <<r.ix>>]
                     /\ raised' = r.raised
    /\ UNCHANGED <<keyset_tbl, key_tbl, pc, stored>>
    /\ UNCHANGED <<queries, fieldvars>>

\* The rows WHERE column IS NULL (rhs TRUE) or IS NOT NULL (rhs FALSE) returns.
IsNullMatches(rhs) == {s \in stored : (Column(s) = <<>>) = rhs}

\* The message of the FieldError of a lookup.
LookupMessage == "{field} {lookup_name} does not support lookups."

LookupClassInherited(deterministic, lookup_name) ==
    IF lookup_name = "isnull" THEN "IsNull" ELSE "EncryptedField"

\* The lookup class a field resolves a lookup name to, after
\* _register_lookup_classes: for every name but isnull, EncryptedField holds
\* a class of _create_lookup_class and DeterministicEncryptedField one of
\* _create_deterministic_lookup_class, which comes first for its subclasses;
\* isnull stays the built-in of models.Field.
LookupClass(deterministic, lookup_name) ==
    IF lookup_name = "isnull" THEN "IsNull"
    ELSE IF deterministic THEN "DeterministicEncryptedField"
    ELSE "EncryptedField"

\* Model.objects.filter(field__lookup_name=value) in process i: the lookup is
\* constructed, which runs get_prep_lookup of its class.
Filter(i, deterministic, lookup_name, value) ==
    LET class == LookupClass(deterministic, lookup_name)
    IN IF class = "EncryptedField"
          \/ (class = "DeterministicEncryptedField" /\ lookup_name # "exact")
       THEN /\ pc[i] = "idle"
            /\ raised' = "FieldError"
            /\ message' = LookupMessage
            /\ UNCHANGED <<keyset_tbl, key_tbl, inst, pc, stored>>
            /\ UNCHANGED <<queries, settings, manager, exported, processvars>>
       ELSE IF class = "IsNull" \/ value = None
       THEN /\ pc[i] = "idle"
            /\ raised' = ""
            /\ UNCHANGED <<keyset_tbl, key_tbl, inst, pc, stored>>
            /\ UNCHANGED <<queries, fieldvars>>
       ELSE /\ OverDeterministic(i)
            /\ ExactLookup(i, value)

\* Nullable encrypted fields, probabilistic and deterministic: one process
\* creates the keysets, another loads them; both save None and values, read
\* rows back and filter with every lookup.
NextField ==
    \/ \E i \in Admin, name \in Probabilistic, tmpl \in StoreTemplates : Create(i, name, tmpl)
    \/ \E i \in Admin, name \in Deterministic, tmpl \in DaeadTemplates : Create(i, name, tmpl)
    \/ \E i \in Reader, name \in Names : Load(i, name)
    \/ \E i \in Instances : Primitive(i)
    \/ \E i \in Instances, deterministic \in BOOLEAN, value \in FieldValues :
           SaveField(i, deterministic, value)
    \/ \E i \in Instances, deterministic \in BOOLEAN : ReadRow(i, deterministic)
    \/ \E i \in Instances, deterministic \in BOOLEAN, lookup_name \in Lookups,
          value \in FieldValues :
           Filter(i, deterministic, lookup_name, value)

SpecField == Init /\ [][NextField]_vars

IndexesFor(s) ==
    {EmptyIndex} \cup {IndexOf(i) : i \in {p \in Instances :
                                            inst[p].pset # <<>> /\ inst[p].pk = s.ks}}

\* C26: None is stored as NULL without an encrypt call and NULL is returned
\* as None without a decrypt call, for AEAD and deterministic fields alike;
\* an isnull query matches exactly the rows saved with None.
C26_NoneIsNull ==
    /\ [](/\ IsNullMatches(TRUE) = {s \in stored : s.pt = None}
          /\ IsNullMatches(FALSE) = {s \in stored : s.pt # None}
          /\ \A s \in stored : \A deterministic \in BOOLEAN : \A ix \in IndexesFor(s) :
                s.pt = None =>
                    FieldFromDbValue(deterministic, ix, s.ks, Column(s), s.aad)
                        = [ix |-> ix, raised |-> "", value |-> <<>>])
    /\ [][\A i \in Instances, deterministic \in BOOLEAN :
              SaveField(i, deterministic, None) =>
                  /\ NullRow(inst[i].pk) \in stored'
                  /\ inst' = inst
                  /\ raised' = ""]_vars

\* None was saved by a process that holds no primitive, beside a row that
\* holds a ciphertext, and the call returned.
C26_Witness ==
    /\ raised = ""
    /\ \E i \in Instances :
          /\ inst[i].pset = <<>>
          /\ NullRow(inst[i].pk) \in stored
    /\ \E s \in stored : s.pt # None



\* ------------------------------------------- threads on one shared index

\* The process whose Keyset object, and so whose index, the threads share.
Shared == "p2"

\* entries = self._primitives.setdefault(key.output_prefix, [])
\* entries.append(key.entry)
AppendToCache(ix, key) ==
    LET entries == IF key.output_prefix \in DOMAIN ix
                   THEN ix[key.output_prefix] ELSE <<>>
    IN [idf \in DOMAIN ix \cup {key.output_prefix} |->
           IF idf = key.output_prefix THEN Append(entries, KeyEntry(key))
           ELSE ix[idf]]

\* A thread has evaluated its query and is about to walk the rows it got:
\* for key in <rows>: self._add_key_to_cache(key)
Filling(rows) ==
    IF rows = <<>> THEN Returned
    ELSE [op |-> "fill", keys |-> rows, checked |-> FALSE]

\* Thread t calls primitive_from_identifier on the shared index: the fast
\* path returns at once, otherwise the query is evaluated against storage
\* with the key ids cached at this moment excluded.
ThreadLookup(t, identifier) ==
    /\ callers[t] = Returned
    /\ inst[Shared].pset # <<>>
    /\ LET ix == IndexOf(Shared)
       IN callers' = [callers EXCEPT ![t] =
              IF Len(identifier) > 0 /\ identifier \in DOMAIN ix
              THEN Returned
              ELSE Filling(InIdOrder(UncachedWithPrefix(ix, inst[Shared].pk, identifier)))]
    /\ raised' = ""
    /\ UNCHANGED <<keyset_tbl, key_tbl, inst, pc, stored, queries>>
    /\ UNCHANGED <<settings, manager, message, exported, txn, handle_cache, file_reads>>

\* Thread t calls all() on the shared index: the query for the uncached keys.
ThreadAll(t) ==
    /\ callers[t] = Returned
    /\ inst[Shared].pset # <<>>
    /\ callers' = [callers EXCEPT ![t] =
           Filling(InIdOrder(Uncached(IndexOf(Shared), inst[Shared].pk)))]
    /\ raised' = ""
    /\ UNCHANGED <<keyset_tbl, key_tbl, inst, pc, stored, queries>>
    /\ UNCHANGED <<settings, manager, message, exported, txn, handle_cache, file_reads>>

\* Thread t calls primary() on the shared index: the primary key is read and
\* looked for; when it is not indexed the thread goes on to add it.
ThreadPrimary(t) ==
    /\ callers[t] = Returned
    /\ inst[Shared].pset # <<>>
    /\ LET key == PrimaryKeyOf(inst[Shared])
       IN IF key = <<>>
          THEN /\ raised' = (IF inst[Shared].primary_key_id = NoKey THEN "AttributeError" ELSE "DoesNotExist")
               /\ UNCHANGED callers
          ELSE /\ raised' = ""
               /\ callers' = [callers EXCEPT ![t] =
                      IF EntryById(IndexOf(Shared), key[1].output_prefix, key[1].id) # <<>>
                      THEN Returned ELSE Filling(key)]
    /\ UNCHANGED <<keyset_tbl, key_tbl, inst, pc, stored, queries>>
    /\ UNCHANGED <<settings, manager, message, exported, txn, handle_cache, file_reads>>

\* _add_key_to_cache, its test: if not self._entry_by_id(key.output_prefix,
\* key.id). A key found in the index is passed over.
ThreadCheck(t) ==
    /\ callers[t].op = "fill" /\ ~callers[t].checked
    /\ LET key == Head(callers[t].keys)
       IN callers' = [callers EXCEPT ![t] =
              IF EntryById(IndexOf(Shared), key.output_prefix, key.id) # <<>>
              THEN Filling(Tail(callers[t].keys))
              ELSE [callers[t] EXCEPT !.checked = TRUE]]
    /\ UNCHANGED <<keyset_tbl, key_tbl, inst, pc, stored, raised, queries>>
    /\ UNCHANGED <<settings, manager, message, exported, txn, handle_cache, file_reads>>

\* _add_key_to_cache, its insert, by a thread whose test found no entry.
ThreadAppend(t) ==
    /\ callers[t].op = "fill" /\ callers[t].checked
    /\ inst' = [inst EXCEPT ![Shared].pset =
                   <<AppendToCache(IndexOf(Shared), Head(callers[t].keys))>>]
    /\ callers' = [callers EXCEPT ![t] = Filling(Tail(callers[t].keys))]
    /\ UNCHANGED <<keyset_tbl, key_tbl, pc, stored, raised, queries>>
    /\ UNCHANGED <<settings, manager, message, exported, txn, handle_cache, file_reads>>

\* No thread is inside a call on the shared index.
Quiet == \A t \in Callers : callers[t] = Returned

\* Two threads of one process on the index of the Keyset object they share,
\* while another process creates the keyset and generates keys in it.
NextThreads ==
    \/ \E i \in Admin, name \in Rotated, tmpl \in Templates : Create(i, name, tmpl)
    \/ \E i \in Admin, tmpl \in Templates :
           /\ Cardinality(KeySet(inst[i].pk)) <= MaxRotations
           /\ GenerateKey(i, tmpl)
    \/ \E i \in Admin : Save(i)
    \/ \E name \in Rotated : Quiet /\ Load(Shared, name)
    \/ Quiet /\ Primitive(Shared)
    \/ \E t \in Callers, identifier \in Identifiers : ThreadLookup(t, identifier)
    \/ \E t \in Callers : ThreadAll(t)
    \/ \E t \in Callers : ThreadPrimary(t)
    \/ \E t \in Callers : ThreadCheck(t)
    \/ \E t \in Callers : ThreadAppend(t)

SpecThreads == Init /\ [][NextThreads]_vars

\* The key ids under the entries of an index, one for each entry.
EntryCount(ix) ==
    LET RECURSIVE Sum(_)
        Sum(S) == IF S = {} THEN 0
                  ELSE LET idf == CHOOSE x \in S : TRUE
                       IN Len(ix[idf]) + Sum(S \ {idf})
    IN Sum(DOMAIN ix)

\* C31: when several callers in one process use the same index concurrently,
\* the index stays consistent for every interleaving of their storage reads
\* and cache inserts: no key id is inserted twice, and no entry is lost.
C31_ConsistentUnderInterleaving ==
    /\ [](inst[Shared].pset # <<>> =>
              EntryCount(IndexOf(Shared)) = Cardinality(AllCachedKeyIds(IndexOf(Shared))))
    /\ [][(inst[Shared].pset # <<>> /\ ~(\E name \in Rotated : Load(Shared, name)))
              => AllCachedKeyIds(IndexOf(Shared)) \subseteq AllCachedKeyIds(IndexOf(Shared)')]_vars



\* ------------------------------------------- the two writes of a new Key

\* The id the database gives the next Key row: above every id in use, also
\* by a row of a transaction that is still open.
TxnNextId ==
    Max(DOMAIN key_tbl \cup {txn[i][1].row.id : i \in {p \in Instances : txn[p] # <<>>}}
        \cup {0}) + 1

\* The Key that create_from_keydata builds and saves first: the id is the
\* one the insert returns, output_prefix is the empty default of the column.
InsertedRow(ksid, tmpl, id) ==
    [id |-> id, keyset_id |-> ksid, type_url |-> tmpl.type_url,
     key_data |-> NewKeyData(tmpl, id), status |-> "ENABLED",
     output_prefix_type |-> tmpl.output_prefix_type,
     output_prefix |-> <<>>]

TxnInsertAutocommit(i, tmpl) ==
    /\ pc[i] = "idle" /\ txn[i] = <<>>
    /\ inst[i].pk \in DOMAIN keyset_tbl
    /\ TxnNextId <= MaxKeys
    /\ LET row == InsertedRow(inst[i].pk, tmpl, TxnNextId)
       IN /\ txn' = [txn EXCEPT ![i] = <<[row |-> row, updated |-> FALSE]>>]
          /\ key_tbl' = [k \in DOMAIN key_tbl \cup {row.id} |->
                            IF k = row.id THEN row ELSE key_tbl[k]]
    /\ raised' = ""
    /\ UNCHANGED <<keyset_tbl, inst, pc, stored, queries>>
    /\ UNCHANGED <<settings, manager, message, exported, callers, handle_cache, file_reads>>

\* Key.create_from_keydata, inside transaction.atomic(): out = cls(...);
\* out.save(). The row is written in the transaction of process i.
TxnInsert(i, tmpl) ==
    /\ pc[i] = "idle" /\ txn[i] = <<>>
    /\ inst[i].pk \in DOMAIN keyset_tbl
    /\ TxnNextId <= MaxKeys
    /\ txn' = [txn EXCEPT ![i] =
                  <<[row |-> InsertedRow(inst[i].pk, tmpl, TxnNextId), updated |-> FALSE]>>]
    /\ raised' = ""
    /\ UNCHANGED <<keyset_tbl, key_tbl, inst, pc, stored, queries>>
    /\ UNCHANGED <<settings, manager, message, exported, callers, handle_cache, file_reads>>

\* out.refresh_from_db(); out.output_prefix = crypto_format.output_prefix(
\* out.key); out.save(): the second write, still inside the transaction.
TxnUpdate(i) ==
    /\ txn[i] # <<>> /\ ~txn[i][1].updated
    /\ LET row == txn[i][1].row
       IN txn' = [txn EXCEPT ![i] =
              <<[row |-> [row EXCEPT !.output_prefix =
                             OutputPrefix(row.id, row.output_prefix_type)],
                 updated |-> TRUE]>>]
    /\ UNCHANGED <<keyset_tbl, key_tbl, inst, pc, stored, raised, queries>>
    /\ UNCHANGED <<settings, manager, message, exported, callers, handle_cache, file_reads>>

\* The with block is left: the transaction commits both writes at once.
TxnCommit(i) ==
    /\ txn[i] # <<>> /\ txn[i][1].updated
    /\ LET row == txn[i][1].row
       IN key_tbl' = [k \in DOMAIN key_tbl \cup {row.id} |->
                         IF k = row.id THEN row ELSE key_tbl[k]]
    /\ txn' = [txn EXCEPT ![i] = <<>>]
    /\ UNCHANGED <<keyset_tbl, inst, pc, stored, raised, queries>>
    /\ UNCHANGED <<settings, manager, message, exported, callers, handle_cache, file_reads>>

\* An exception leaves the with block between the two writes: the
\* transaction is rolled back and nothing of the Key is committed.
TxnRollback(i) ==
    /\ txn[i] # <<>> /\ ~txn[i][1].updated
    /\ txn' = [txn EXCEPT ![i] = <<>>]
    /\ raised' = "DatabaseError"
    /\ UNCHANGED <<keyset_tbl, key_tbl, inst, pc, stored, queries>>
    /\ UNCHANGED <<settings, manager, message, exported, callers, handle_cache, file_reads>>

\* Keys written in two phases beside readers: both processes generate keys in
\* the keyset, write by write, and look keys up while a transaction is open.
NextTxn ==
    \/ \E i \in Admin, name \in Rotated, tmpl \in Templates : Create(i, name, tmpl)
    \/ \E i \in Admin : Save(i)
    \/ \E i \in Reader, name \in Rotated : Load(i, name)
    \/ \E i \in Instances, tmpl \in Templates : TxnInsert(i, tmpl)
    \/ \E i \in Instances : TxnUpdate(i)
    \/ \E i \in Instances : TxnCommit(i)
    \/ \E i \in Instances : TxnRollback(i)
    \/ \E i \in Reader : Primitive(i)
    \/ \E i \in Reader, identifier \in Identifiers : Lookup(i, identifier)
    \/ \E i \in Reader : All(i)

SpecTxn == Init /\ [][NextTxn]_vars

\* C32: key creation is a two-phase write inside one transaction: every
\* committed Key row has the routing identifier output_prefix(key id, output
\* prefix type), and no committed state and no concurrent lookup observes a
\* prefixed key whose identifier is still empty.
C32_IdentifierCommitted ==
    /\ \A k \in DOMAIN key_tbl :
          key_tbl[k].output_prefix = OutputPrefix(k, key_tbl[k].output_prefix_type)
    /\ \A i \in Instances : inst[i].pset # <<>> =>
          \A idf \in DOMAIN IndexOf(i) : \A n \in 1..Len(IndexOf(i)[idf]) :
              LET entry == IndexOf(i)[idf][n]
              IN /\ entry.identifier = idf
                 /\ idf = OutputPrefix(entry.key_id, entry.output_prefix_type)

\* A prefixed key is between its two writes in the transaction of one
\* process while another process has just looked up the empty identifier in
\* storage and holds the committed keys in its index.
C32_Witness ==
    \E i \in Admin, j \in Reader :
        /\ txn[i] # <<>> /\ ~txn[i][1].updated
        /\ txn[i][1].row.output_prefix_type = "TINK"
        /\ inst[j].pset # <<>> /\ queries = 1
        /\ AllCachedKeyIds(IndexOf(j)) # {}
        /\ txn[i][1].row.id \notin AllCachedKeyIds(IndexOf(j))



\* ------------------------------------------------- the primary among siblings

\* C33: primary() returns the entry whose key id is the primary key id of the
\* keyset object the index belongs to, also when several RAW keys share the
\* empty identifier in the index, and whether or not the primary was cached
\* before the call; the entry is never that of a sibling key, and after the
\* call the index holds it.
C33_PrimaryByKeyId ==
    \A i \in Instances :
        CanEncrypt(i) =>
            LET key == PrimaryKeyOf(inst[i])[1]
                p == Primary(IndexOf(i), key)
            IN /\ p.entry.key_id = inst[i].primary_key_id
               /\ p.entry.primitive = KeyPrimitive(key)
               /\ p.entry.identifier = key.output_prefix
               /\ key.id \in AllCachedKeyIds(p.ix)
               /\ AllCachedKeyIds(p.ix) = AllCachedKeyIds(IndexOf(i)) \cup {key.id}

\* The index of a process holds two RAW keys under the empty identifier, and
\* the primary of its object is the second of them.
C33_Witness ==
    \E i \in Instances :
        /\ CanEncrypt(i) /\ raised = ""
        /\ <<>> \in DOMAIN IndexOf(i) /\ Len(IndexOf(i)[<<>>]) = 2
        /\ IndexOf(i)[<<>>][2].key_id = inst[i].primary_key_id
        /\ IndexOf(i)[<<>>][1].key_id # inst[i].primary_key_id



\* ------------------------------------------------- the owner of an entry

\* Two keysets side by side: one process creates both, generates a key in
\* the first and promotes keys by id; another loads either; both use the
\* index of the object they hold.
NextOwner ==
    \/ \E i \in Admin, name \in Names, tmpl \in StoreTemplates : Create(i, name, tmpl)
    \/ \E i \in Admin, tmpl \in StoreTemplates :
           /\ Cardinality(DOMAIN keyset_tbl) = 1
           /\ Cardinality(KeySet(inst[i].pk)) <= MaxRotations
           /\ GenerateKey(i, tmpl)
    \/ \E i \in Admin : \E key_id \in DOMAIN key_tbl : SetPrimaryKeyAssign(i, key_id)
    \/ \E i \in Admin : SetPrimaryKeySave(i)
    \/ \E i \in Reader, name \in Names : Load(i, name)
    \/ \E i \in Instances : Primitive(i)
    \/ \E i \in Reader, identifier \in Identifiers : Lookup(i, identifier)
    \/ \E i \in Reader : All(i)
    \/ \E i \in Instances : PrimaryEntry(i)

SpecOwner == Init /\ [][NextOwner]_vars

\* C34: every entry in the index of a keyset is the projection of a Key that
\* the keyset owns: no sequence of create, generate_key, set_primary_key,
\* primitive_from_identifier, all and primary calls on any keysets puts a key
\* of another keyset into the index.
C34_EntriesOwned ==
    \A i \in Instances : inst[i].pset # <<>> =>
        \A k \in AllCachedKeyIds(IndexOf(i)) :
            k \in DOMAIN key_tbl /\ key_tbl[k].keyset_id = inst[i].pk



\* ------------------------------------------------- the empty identifier

\* The RAW keys of a keyset in storage.
RawKeys(ksid) == {k \in KeySet(ksid) : key_tbl[k].output_prefix_type = "RAW"}

\* C35: a lookup with the empty identifier never takes the fast path: it
\* always queries storage for the uncached keys, and the candidates it
\* returns hold every RAW key of the keyset that is in storage, those added
\* after the previous lookup included; every candidate is a RAW entry.
C35_RawAlwaysQueries ==
    [][\A i \in Instances :
          Lookup(i, <<>>) =>
              LET got == SuperPrimitiveFromIdentifier(IndexOf(i)', <<>>)
              IN /\ queries' = 1
                 /\ RawKeys(inst[i].pk) \subseteq KeyIdsOf(got)
                 /\ \A n \in 1..Len(got) :
                       got[n].identifier = <<>> /\ got[n].output_prefix_type = "RAW"]_vars

\* A lookup of the empty identifier has just queried storage, and the index
\* holds two RAW keys: every key of the keyset.
C35_Witness ==
    \E i \in Reader :
        /\ inst[i].pset # <<>> /\ queries = 1 /\ raised = ""
        /\ DOMAIN IndexOf(i) = {<<>>} /\ Len(IndexOf(i)[<<>>]) = 2
        /\ RawKeys(inst[i].pk) = KeySet(inst[i].pk)



\* ------------------------------------------------------ deleting a keyset

\* The Keyset rows that Keyset.primary_key (on_delete=PROTECT) points from
\* to a Key of keyset ksid: the rows that protect those Keys from deletion.
Protectors(ksid) ==
    {k \in DOMAIN keyset_tbl : keyset_tbl[k].primary_key_id \in KeySet(ksid)}

\* Command.delete_keyset(name), in a process of its own: keyset.delete()
\* collects the keyset and, through Key.keyset (CASCADE), its Keys; a Key
\* that a Keyset row designates through primary_key (PROTECT) stops the
\* deletion with ProtectedError, which the command does not catch.
DeleteKeysetCommand(name) ==
    /\ IF KeysetByName(name) = {}
       THEN /\ raised' = "CommandError"
            /\ UNCHANGED <<keyset_tbl, key_tbl>>
       ELSE LET ksid == CHOOSE k \in KeysetByName(name) : TRUE
            IN IF Protectors(ksid) # {}
               THEN /\ raised' = "ProtectedError"
                    /\ UNCHANGED <<keyset_tbl, key_tbl>>
               ELSE /\ keyset_tbl' = [k \in DOMAIN keyset_tbl \ {ksid} |-> keyset_tbl[k]]
                    /\ key_tbl' = [k \in DOMAIN key_tbl \ KeySet(ksid) |-> key_tbl[k]]
                    /\ raised' = ""
    /\ UNCHANGED <<inst, pc, stored>>
    /\ UNCHANGED <<queries, fieldvars>>

\* A keyset that comes and goes: one process creates it, generates keys in
\* it and persists its primary; keysets are deleted by name and
\* the status of keys changes; both processes use the index of the object
\* they hold. Rows are created only while the creator's keyset exists, so
\* that no id of a deleted row is given out again.
NextDelete ==
    \/ \E i \in Admin, name \in Rotated, tmpl \in Templates :
           /\ inst[i].pk \in DOMAIN keyset_tbl \cup {NoKey}
           /\ Create(i, name, tmpl)
    \/ \E i \in Admin, tmpl \in Templates :
           /\ Cardinality(KeySet(inst[i].pk)) <= MaxRotations
           /\ GenerateKey(i, tmpl)
    \/ \E i \in Admin : Save(i)
    \/ \E name \in Names : DeleteKeysetCommand(name)
    \/ \E key_id \in KeyIds : SetKeyStatus(key_id, "DISABLED")
    \/ \E i \in Reader, name \in Rotated : Load(i, name)
    \/ \E i \in Instances : Primitive(i)
    \/ \E i \in Instances : All(i)
    \/ \E i \in Instances : PrimaryEntry(i)

SpecDelete == Init /\ [][NextDelete]_vars

\* Process i binds another Keyset object in this step: the index of the
\* object it held ends with it.
Rebinds(i) ==
    \/ \E name \in Rotated : Load(i, name)
    \/ \E name \in Rotated, tmpl \in Templates : Create(i, name, tmpl)

\* C36: index entries are never removed or replaced: once a key id is
\* indexed it stays indexed under the same identifier with the same status
\* and primitive for the lifetime of the index, also after the status of the
\* key changes in storage or the key row is deleted.
C36_EntriesStay ==
    [][\A i \in Instances :
          (inst[i].pset # <<>> /\ ~Rebinds(i)) =>
              /\ inst'[i].pset # <<>>
              /\ \A idf \in DOMAIN IndexOf(i) :
                    /\ idf \in DOMAIN IndexOf(i)'
                    /\ Len(IndexOf(i)[idf]) <= Len(IndexOf(i)'[idf])
                    /\ \A n \in 1..Len(IndexOf(i)[idf]) :
                          IndexOf(i)'[idf][n] = IndexOf(i)[idf][n]]_vars

\* The index of a process holds two keys whose rows were deleted with their
\* keyset after they were indexed.
C36_Witness ==
    \E i \in Instances :
        /\ inst[i].pset # <<>>
        /\ inst[i].pk \notin DOMAIN keyset_tbl
        /\ Cardinality(AllCachedKeyIds(IndexOf(i))) = 2
        /\ AllCachedKeyIds(IndexOf(i)) \cap DOMAIN key_tbl = {}
        /\ raised = ""

\* C37: deleting a keyset removes the keyset and every Key it owns, its
\* current primary key included, and leaves every other keyset and its keys
\* unchanged; no other operation of the keyset store deletes a Key row.
C37_DeleteCascades ==
    /\ [][\A name \in Names :
             (DeleteKeysetCommand(name) /\ KeysetByName(name) # {}) =>
                 LET ksid == CHOOSE k \in KeysetByName(name) : TRUE
                 IN /\ DOMAIN keyset_tbl' = DOMAIN keyset_tbl \ {ksid}
                    /\ DOMAIN key_tbl' = DOMAIN key_tbl \ KeySet(ksid)
                    /\ \A k \in DOMAIN keyset_tbl' : keyset_tbl'[k] = keyset_tbl[k]
                    /\ \A k \in DOMAIN key_tbl' : key_tbl'[k] = key_tbl[k]]_vars
    /\ [][(\E name \in Names : DeleteKeysetCommand(name))
             \/ DOMAIN key_tbl \subseteq DOMAIN key_tbl']_vars



\* ------------------------------------------ the keyset that protects key data

\* The keyset of Key.key_data: EncryptedBinaryField(keyset="db_keyset").
KeyDataKeyset == "db_keyset"

\* The names TINK_FIELDS_CONFIG configures here: the keyset of Key.key_data
\* and a keyset of the fields of the application.
ProtectNames == {KeyDataKeyset, "db_aead"}

\* The entries that name a keyset of the database, as {"db_name": "aead"}.
DbEntries == {[db_name |-> name] : name \in Names}

\* The settings a project can run with: each name is configured with a file
\* in any way, or with the name of a keyset of the database.
ProtectSettings ==
    {<<d>> : d \in [ProtectNames -> ConfigEntries \cup DbEntries]}

\* The fields of the dataclass KeysetConfig of fields.py.
KeysetConfigFields == {"path", "master_key_aead", "cleartext"}

\* KeysetConfig(**entry): the class of the exception raised, "" when the
\* object is constructed. A keyword that is no field of the dataclass is a
\* TypeError; __post_init__ validates the fields.
KeysetConfigInit(entry) ==
    IF ~(DOMAIN entry \subseteq KeysetConfigFields) THEN "TypeError"
    ELSE IF Validate(entry) # "" THEN "ImproperlyConfigured"
    ELSE ""

RECURSIVE ConfigPrimitive(_, _, _)
\* KeysetConfig.primitive of config.py for the entry of keyset_name, while
\* the keysets in loading are being loaded: an entry with db_name passes
\* validate and is loaded from the database (_load_from_db), where reading
\* its Key rows decrypts key_data with the keyset of Key.key_data.
ConfigPrimitive(s, keyset_name, loading) ==
    IF keyset_name \in loading THEN "RecursionError"
    ELSE IF "db_name" \in DOMAIN s[1][keyset_name]
    THEN ConfigPrimitive(s, KeyDataKeyset, loading \cup {keyset_name})
    ELSE KeysetConfigInit(s[1][keyset_name])

ManagerHandleFromDb(s, keyset_name) ==
    IF ValidateConfig(s, keyset_name) # "" THEN "ImproperlyConfigured"
    ELSE ConfigPrimitive(s, keyset_name, {})

\* KeysetManager._get_tink_keyset_handle under settings s: the class of the
\* exception raised, "" when a handle is returned.
ManagerHandle(s, keyset_name) ==
    IF ValidateConfig(s, keyset_name) # "" THEN "ImproperlyConfigured"
    ELSE KeysetConfigInit(s[1][keyset_name])

\* Keyset.create(name, key_template) with the write of key_data spelled out:
\* get_db_prep_save encrypts it with the primitive of the keyset of
\* Key.key_data; an exception leaves the transaction of create rolled back.
ProtectedCreate(i, name, tmpl) ==
    IF ManagerHandle(settings, KeyDataKeyset) = ""
    THEN Create(i, name, tmpl)
    ELSE /\ pc[i] = "idle"
         /\ KeysetByName(name) = {}
         /\ raised' = ManagerHandle(settings, KeyDataKeyset)
         /\ UNCHANGED <<keyset_tbl, key_tbl, inst, pc, stored>>
         /\ UNCHANGED <<queries, fieldvars>>

\* Keyset.primitive(primitive_class) with the read of key_data spelled out:
\* building the index loads the primary Key, whose key_data from_db_value
\* decrypts with the primitive of the keyset of Key.key_data.
ProtectedPrimitive(i) ==
    IF \/ ManagerHandle(settings, KeyDataKeyset) = ""
       \/ inst[i].pset # <<>>
       \/ PrimaryKeyOf(inst[i]) = <<>>
    THEN Primitive(i)
    ELSE /\ pc[i] = "idle"
         /\ inst[i].pk \in DOMAIN keyset_tbl
         /\ raised' = ManagerHandle(settings, KeyDataKeyset)
         /\ UNCHANGED <<keyset_tbl, key_tbl, inst, pc, stored>>
         /\ UNCHANGED <<queries, fieldvars>>

\* The first use of an encrypted field of the application that is configured
\* with keyset_name: its manager fetches the handle.
FieldFirstUse(keyset_name) ==
    /\ raised' = ManagerHandle(settings, keyset_name)
    /\ UNCHANGED <<keyset_tbl, key_tbl, inst, pc, stored>>
    /\ UNCHANGED <<queries, fieldvars>>

InitProtect ==
    /\ keyset_tbl = <<>>
    /\ key_tbl = <<>>
    /\ inst = [i \in Instances |-> NoInstance]
    /\ pc = [i \in Instances |-> "idle"]
    /\ stored = {}
    /\ raised = ""
    /\ queries = 0
    /\ settings \in ProtectSettings
    /\ manager = <<>>
    /\ message = ""
    /\ exported = <<>>
    /\ callers = [t \in Callers |-> Returned]
    /\ txn = [i \in Instances |-> <<>>]
    /\ handle_cache = [k \in {} |-> 0]
    /\ file_reads = <<>>

\* Keysets of the database under each configuration: one process creates
\* them, another loads them and builds their index, and the fields of the
\* application are used.
NextProtect ==
    \/ \E i \in Admin, name \in Names, tmpl \in StoreTemplates :
           ProtectedCreate(i, name, tmpl)
    \/ \E i \in Admin : Save(i)
    \/ \E i \in Reader, name \in Names : Load(i, name)
    \/ \E i \in Instances : ProtectedPrimitive(i)
    \/ \E keyset_name \in ProtectNames : FieldFirstUse(keyset_name)

SpecProtect == InitProtect /\ [][NextProtect]_vars

\* A step that reads or writes key_data.
TouchesKeyData ==
    \/ \E i \in Admin, name \in Names, tmpl \in StoreTemplates :
           KeysetByName(name) = {} /\ ProtectedCreate(i, name, tmpl)
    \/ \E i \in Instances :
           /\ inst[i].pset = <<>> /\ PrimaryKeyOf(inst[i]) # <<>>
           /\ ProtectedPrimitive(i)

\* C38: the keyset that protects persisted key material, the keyset of
\* Key.key_data, is always a file-backed keyset of the settings: a
\* configuration that makes it database-backed is rejected, so loading a
\* keyset of the database terminates and never depends on itself.
C38_KeyDataKeysetFileBacked ==
    [][/\ TouchesKeyData =>
            /\ raised' # "RecursionError"
            /\ "db_name" \in DOMAIN settings[1][KeyDataKeyset] =>
                  (raised' = "TypeError" /\ UNCHANGED <<keyset_tbl, key_tbl, inst>>)
            /\ raised' = "" =>
                  /\ DOMAIN settings[1][KeyDataKeyset] = KeysetConfigFields
                  /\ settings[1][KeyDataKeyset].path \in Files
       /\ \A keyset_name \in ProtectNames :
             (FieldFirstUse(keyset_name) /\ "db_name" \in DOMAIN settings[1][keyset_name])
                => raised' = "TypeError"]_vars

\* The settings configure the keyset of Key.key_data with the name of a
\* keyset of the database, and creating a keyset was refused.
C38_Witness ==
    /\ "db_name" \in DOMAIN settings[1][KeyDataKeyset]
    /\ raised = "TypeError"
    /\ keyset_tbl = <<>> /\ key_tbl = <<>>



\* ------------------------------------------------- the cache of keyset handles

\* The KeysetManagers of the process, one for each encrypted field: two
\* fields of keyset "default" and one of keyset "alternate".
ManagerOf == [f1 |-> "default", f2 |-> "default", f3 |-> "alternate"]

\* cache_key = (keyset_name, path, cleartext, id(master_key_aead) or 0); the
\* one master key of the settings stands for its id.
CacheKey(s, keyset_name) ==
    LET c == s[1][keyset_name]
    IN <<keyset_name, c.path, c.cleartext, c.master_key_aead>>

\* self._handle_cache.get(cache_key)
CachedHandle(cache, cache_key) ==
    IF cache_key \in DOMAIN cache THEN cache[cache_key] ELSE None

\* A thread inside manager.aead_primitive of manager m, at position op.
Inside(op, m) == [op |-> op, keys |-> <<m>>, checked |-> FALSE]

\* Thread t reads m.aead_primitive. The cached_property returns the object
\* the manager holds; without one the thread enters
\* _get_tink_keyset_handle: a handle the manager holds or the cache has is
\* taken, otherwise the thread goes on to read the keyset file.
ThreadAeadPrimitive(t, m) ==
    /\ callers[t] = Returned
    /\ LET cached == CachedHandle(handle_cache, CacheKey(settings, manager[m].keyset_name))
       IN IF manager[m].aead_primitive # <<>>
          THEN /\ exported' = <<[kind |-> "Aead", manager |-> m,
                                 primitive |-> manager[m].aead_primitive[1]]>>
               /\ UNCHANGED <<callers, manager>>
          ELSE IF manager[m].handle # None
          THEN /\ callers' = [callers EXCEPT ![t] = Inside("wrap", m)]
               /\ UNCHANGED <<exported, manager>>
          ELSE IF cached # None
          THEN /\ manager' = [manager EXCEPT ![m].handle = cached]
               /\ callers' = [callers EXCEPT ![t] = Inside("wrap", m)]
               /\ UNCHANGED exported
          ELSE /\ callers' = [callers EXCEPT ![t] = Inside("open", m)]
               /\ UNCHANGED <<exported, manager>>
    /\ raised' = ""
    /\ UNCHANGED <<keyset_tbl, key_tbl, inst, pc, stored, queries>>
    /\ UNCHANGED <<settings, message, txn, handle_cache, file_reads>>

\* A thread that found no handle opens and reads the keyset file, keeps the
\* handle in its manager and stores it in the cache under the cache key.
ThreadReadKeyset(t) ==
    /\ callers[t].op = "open"
    /\ LET m == callers[t].keys[1]
           cache_key == CacheKey(settings, manager[m].keyset_name)
           handle == Len(file_reads) + 1
       IN /\ file_reads' = Append(file_reads, cache_key)
          /\ manager' = [manager EXCEPT ![m].handle = handle]
          /\ handle_cache' = [k \in DOMAIN handle_cache \cup {cache_key} |->
                                 IF k = cache_key THEN handle ELSE handle_cache[k]]
          /\ callers' = [callers EXCEPT ![t] = Inside("wrap", m)]
    /\ UNCHANGED <<keyset_tbl, key_tbl, inst, pc, stored, raised, queries>>
    /\ UNCHANGED <<settings, message, exported, txn>>

\* handle.primitive(aead.Aead): a new primitive object, which the
\* cached_property stores in the manager and returns to the thread.
ThreadWrap(t) ==
    /\ callers[t].op = "wrap"
    /\ LET m == callers[t].keys[1]
           primitive == [handle |-> manager[m].handle, by |-> t]
       IN /\ manager' = [manager EXCEPT ![m].aead_primitive = <<primitive>>]
          /\ exported' = <<[kind |-> "Aead", manager |-> m, primitive |-> primitive]>>
          /\ callers' = [callers EXCEPT ![t] = Returned]
    /\ UNCHANGED <<keyset_tbl, key_tbl, inst, pc, stored, raised, queries>>
    /\ UNCHANGED <<settings, message, txn, handle_cache, file_reads>>

\* The process after its models were imported under the test settings: the
\* manager of every field is constructed and holds no handle yet, and no
\* primitive (aead_primitive is <<>> until the cached_property is set).
InitCache ==
    /\ keyset_tbl = <<>>
    /\ key_tbl = <<>>
    /\ inst = [i \in Instances |-> NoInstance]
    /\ pc = [i \in Instances |-> "idle"]
    /\ stored = {}
    /\ raised = ""
    /\ queries = 0
    /\ settings = <<TestSettings>>
    /\ manager = [m \in DOMAIN ManagerOf |->
                     [keyset_name |-> ManagerOf[m], handle |-> None,
                      aead_primitive |-> <<>>]]
    /\ message = ""
    /\ exported = <<>>
    /\ callers = [t \in Callers |-> Returned]
    /\ txn = [i \in Instances |-> <<>>]
    /\ handle_cache = [k \in {} |-> 0]
    /\ file_reads = <<>>

\* Two threads of the process use the encrypted fields.
NextCache ==
    \/ \E t \in Callers, m \in DOMAIN ManagerOf : ThreadAeadPrimitive(t, m)
    \/ \E t \in Callers : ThreadReadKeyset(t)
    \/ \E t \in Callers : ThreadWrap(t)

SpecCache == InitCache /\ [][NextCache]_vars

\* C39: within one process the keyset file of one cache key is read at most
\* once: the managers of one configuration hold the same handle, a manager
\* returns the same primitive object on every access, and a handle in the
\* cache is never replaced or evicted.
C39_ReadAtMostOnce ==
    /\ [](\A a, b \in 1..Len(file_reads) : a # b => file_reads[a] # file_reads[b])
    /\ [](\A m, n \in DOMAIN ManagerOf :
             (/\ manager[m].handle # None /\ manager[n].handle # None
              /\ manager[m].keyset_name = manager[n].keyset_name)
                => manager[m].handle = manager[n].handle)
    /\ [][/\ \A k \in DOMAIN handle_cache :
                k \in DOMAIN handle_cache' /\ handle_cache'[k] = handle_cache[k]
          /\ \A m \in DOMAIN ManagerOf :
                manager[m].aead_primitive # <<>> =>
                    /\ manager'[m].aead_primitive = manager[m].aead_primitive
                    /\ (exported' # exported /\ exported'[1].manager = m)
                          => exported'[1].primitive = manager[m].aead_primitive[1]]_vars

====
